---- MODULE Spec2Model ----
(***************************************************************************)
(* Multi GRN creation: the batch workflow (create, select purchase orders, *)
(* select lines, QC submit / approve / reject / reset) and the posting of  *)
(* one goods receipt per PO link to SAP B1, with retry of the failed       *)
(* links.  Modelled from src/modules/multi_grn_creation/routes.py,         *)
(* models.py and services.py.                                              *)
(*                                                                         *)
(* One batch is followed through its life.  Every request handler is one   *)
(* action; a handler that answers 4xx is the same action taking its        *)
(* rejecting branch.  The variable last records the request just served    *)
(* (its name, its inputs, whether it was accepted, the document-creation   *)
(* requests it sent and its JSON answer), so that properties of a single   *)
(* call can be stated over the states of the model.                        *)
(*                                                                         *)
(* Spec follows the posting workflow: lines reach a PO link through        *)
(* add_item_to_batch.  The handlers create_step3_select_lines and          *)
(* add_manual_item are translated as well; they change no batch status     *)
(* and no posting field, and belong to the line-level specification.       *)
(*                                                                         *)
(* SpecLines follows the selection and entry of lines and detail rows,     *)
(* SpecItems the entry of items with their batch, serial and pack data,    *)
(* SpecDocs the documents built and the requests sent by post and retry    *)
(* for lines entered through the handlers, and SpecLegacy the documents    *)
(* built for lines that keep their numbers in the JSON columns.            *)
(* SpecAccess puts each handler behind its checks of current_user and     *)
(* lets the owner and other users send the requests; SpecRace serves two   *)
(* posting requests at the same time, each in its own database session.    *)
(***************************************************************************)
EXTENDS Integers, Sequences, FiniteSets, TLC

\* Bounds of the model.
MaxPOs == 3
MaxLines == 2
MaxDocs == 2
MaxDetails == 2

VARIABLES batch, po_links, sap_docs, qc_gate, last, req, other

vars == <<batch, po_links, sap_docs, qc_gate, last, req, other>>

\* Purchase orders offered by SAP, identified by their document number.
POs == 1..MaxPOs

\* None / NULL of a text or integer column.
NoText == ""
NoNumber == 0
NoLog == <<>>

\* Column defaults of MultiGRNBatch as create_step1_customer leaves them.
NewBatch ==
  [status |-> "draft", qc_status |-> "pending", total_pos |-> 0,
   total_grns_created |-> 0, error_log |-> NoLog, qc_notes |-> NoText,
   submitted_at |-> FALSE, qc_reviewed_at |-> FALSE, posted_at |-> FALSE,
   completed_at |-> FALSE, posted_by_id |-> FALSE]

\* No row in multi_grn_batches (before creation, after deletion).
NoBatch == [NewBatch EXCEPT !.status = "absent"]

\* A MultiGRNPOLink row as create_step2_select_pos inserts it.  SAP numbers
\* the purchase orders of one series, so that DocEntry and DocNum name the
\* same document: po stands for both.
NewPOLink(po) ==
  [po_doc_entry |-> po, po_doc_num |-> po, po_card_code |-> "C001",
   status |-> "selected", sap_grn_doc_num |-> NoNumber,
   sap_grn_doc_entry |-> NoNumber, error_message |-> NoText,
   posted_at |-> FALSE, line_selections |-> <<>>]

\* A key that an entry of a stored JSON array does not carry.
Missing == -1

\* The precision of the quantity columns, Numeric(15, 3): a quantity that is
\* not kept in whole units is kept in thousandths.
Milli(quantity) == quantity * 1000

\* A MultiGRNLineSelection row, with the rows of multi_grn_batch_details,
\* multi_grn_serial_details and multi_grn_non_managed_details that belong to
\* it: the quantities of the batch rows, the number of the serial rows, the
\* pack number and the quantity (in thousandths) of the non-managed rows.
\* The columns no handler is given a value for keep their defaults:
\* line_status, inventory_type, bin_location, batch_numbers and
\* serial_numbers NULL, manage_method 'N'.
NewLine(line_num, complete, wh) ==
  [po_line_num |-> line_num, item_code |-> "ITM-1", is_complete |-> complete,
   warehouse_code |-> wh, qc_status |-> "pending", selected_quantity |-> 100,
   batch_details |-> <<>>, serial_details |-> 0, non_managed_details |-> <<>>,
   line_status |-> NoText, inventory_type |-> NoText, manage_method |-> "N",
   bin_location |-> NoText, batch_numbers |-> <<>>, serial_numbers |-> <<>>]

\* The record of an accepted request: its handler, whether an exception left
\* it (answered 500), the PO links it sent a document-creation request for,
\* the documents it built for them and the number of requests each link
\* took, the behaviour of the endpoint and of the handler it met (failing,
\* fault), whether it repeats the request before it under the same behaviour
\* (again) and the fields of its JSON answer.
Call(op) ==
  [op |-> op, ok |-> TRUE, raised |-> FALSE, sent |-> {}, failing |-> {},
   fault |-> 0, again |-> FALSE, success |-> TRUE, allow_retry |-> FALSE,
   total_success |-> 0, total_failed |-> 0, documents |-> <<>>, requests |-> <<>>]

\* The record of a request its handler refused (4xx, or a redirect with an
\* error flash): which handler it was is not kept.
Refused == [Call("refused") EXCEPT !.ok = FALSE, !.success = FALSE]

\* The request being served is not followed (req), and the tables hold no
\* other batch (other), in the specification of the posting workflow.
Request(op, arg) == [op |-> op, arg |-> arg]
NoRequest == Request("none", "")
NoOther == [status |-> "absent", po_links |-> <<>>]

Init ==
  /\ batch = NoBatch
  /\ po_links = <<>>
  /\ sap_docs = [p \in POs |-> 0]
  /\ qc_gate = FALSE
  /\ last = Call("none")
  /\ req = NoRequest
  /\ other = NoOther

Exists == batch.status # "absent"

----------------------------------------------------------------------------
\* create_step1_customer: a missing customer or series is refused, otherwise
\* a draft batch is stored.
create_step1_customer(valid) ==
  /\ ~Exists
  /\ IF valid
       THEN /\ batch' = NewBatch
            /\ last' = Call("create")
       ELSE /\ batch' = batch
            /\ last' = Refused
  /\ po_links' = <<>>
  /\ qc_gate' = FALSE
  /\ UNCHANGED sap_docs

\* Mutant: a batch of any status is deleted.
delete_batch_AnyStatus ==
  /\ Exists
  /\ batch' = NoBatch
  /\ po_links' = <<>>
  /\ qc_gate' = FALSE
  /\ last' = Call("delete")
  /\ UNCHANGED sap_docs

\* Mutant: the row of the batch is deleted without a cascade.
delete_batch_NoCascade ==
  /\ Exists
  /\ IF batch.status # "draft"
       THEN /\ UNCHANGED <<batch, po_links, qc_gate>>
            /\ last' = Refused
       ELSE /\ batch' = NoBatch
            /\ UNCHANGED po_links
            /\ qc_gate' = FALSE
            /\ last' = Call("delete")
  /\ UNCHANGED sap_docs

\* delete_batch: only a draft batch is deleted; the cascade removes its PO
\* links and their line selections.
delete_batch ==
  /\ Exists
  /\ IF batch.status # "draft"
       THEN /\ UNCHANGED <<batch, po_links, qc_gate>>
            /\ last' = Refused
       ELSE /\ batch' = NoBatch
            /\ po_links' = <<>>
            /\ qc_gate' = FALSE
            /\ last' = Call("delete")
  /\ UNCHANGED sap_docs

\* Mutant: no existing link is found.
LinkOf_Never(links, po) == 0

\* The index of the PO link with this document number, 0 when there is none
\* (MultiGRNPOLink.query.filter_by(batch_id, po_doc_num).first()).
LinkOf(links, po) ==
  IF \E i \in 1..Len(links) : links[i].po_doc_num = po
    THEN CHOOSE i \in 1..Len(links) : links[i].po_doc_num = po
    ELSE 0

\* The loop of create_step2_select_pos over the selected purchase orders.
RECURSIVE SelectPOs(_, _)
SelectPOs(links, selected) ==
  IF selected = <<>> THEN links
  ELSE IF LinkOf(links, Head(selected)) = 0
    THEN SelectPOs(Append(links, NewPOLink(Head(selected))), Tail(selected))
    ELSE SelectPOs(links, Tail(selected))

\* skipped_count of that loop: the selected purchase orders found linked.
RECURSIVE SkippedCount(_, _)
SkippedCount(links, selected) ==
  IF selected = <<>> THEN 0
  ELSE IF LinkOf(links, Head(selected)) = 0
    THEN SkippedCount(Append(links, NewPOLink(Head(selected))), Tail(selected))
    ELSE 1 + SkippedCount(links, Tail(selected))

\* Mutant: total_pos counts the selected purchase orders.
create_step2_select_pos_CountsSelected(selected) ==
  /\ Exists
  /\ IF selected = <<>>
       THEN /\ UNCHANGED <<batch, po_links>>
            /\ last' = Refused
       ELSE /\ po_links' = SelectPOs(po_links, selected)
            /\ batch' = [batch EXCEPT !.total_pos = @ + Len(selected)]
            /\ last' = Call("select_pos")
  /\ UNCHANGED <<sap_docs, qc_gate>>

\* create_step2_select_pos (POST): no check of the batch status.
create_step2_select_pos(selected) ==
  /\ Exists
  /\ IF selected = <<>>
       THEN /\ UNCHANGED <<batch, po_links>>
            /\ last' = Refused
       ELSE /\ po_links' = SelectPOs(po_links, selected)
            /\ batch' = [batch EXCEPT !.total_pos = Len(po_links')]
            /\ last' = Call("select_pos")
  /\ UNCHANGED <<sap_docs, qc_gate>>

----------------------------------------------------------------------------
\* MultiGRNLineSelection.query.filter_by(po_link_id, po_line_num, item_code)
\* .first(): the position of the matching line of a link, 0 when none.
LineOf(lines, line_num, item) ==
  IF \E j \in 1..Len(lines) : lines[j].po_line_num = line_num /\ lines[j].item_code = item
    THEN CHOOSE j \in 1..Len(lines) : lines[j].po_line_num = line_num /\ lines[j].item_code = item
    ELSE 0

\* The lines of one link after create_step3_select_lines handled the open PO
\* line 0 chosen for it: a new row (is_complete keeps its default, False;
\* LineStatus is that of an open line and the line data names no management
\* of the item), or the existing row with its quantity overwritten.
SelectLine(lines, qty) ==
  IF LineOf(lines, 0, "ITM-1") = 0
    THEN Append(lines, [NewLine(0, FALSE, "WH") EXCEPT !.selected_quantity = qty,
                                                        !.line_status = "bost_Open",
                                                        !.inventory_type = "standard"])
    ELSE [lines EXCEPT ![LineOf(lines, 0, "ITM-1")].selected_quantity = qty]

\* create_step3_select_lines (POST): chosen is the set of links for which the
\* form carries a line with a positive quantity, qty that quantity.  No check
\* of the batch status.
create_step3_select_lines(chosen, qty) ==
  /\ Exists
  /\ \A i \in chosen : Len(SelectLine(po_links[i].line_selections, qty)) <= MaxLines
  /\ IF chosen = {}
       THEN /\ UNCHANGED po_links
            /\ last' = Refused
       ELSE /\ po_links' = [i \in 1..Len(po_links) |->
                             IF i \in chosen
                               THEN [po_links[i] EXCEPT !.line_selections = SelectLine(@, qty)]
                               ELSE po_links[i]]
            /\ last' = Call("select_lines")
  /\ UNCHANGED <<batch, sap_docs, qc_gate>>

\* What SAP reports about an item (mode: 'B' batch-managed, 'S' serial-
\* managed, 'N' neither) and what a form or a JSON body says about it: the
\* quantity (whole units and thousandths), number_of_bags, the quantities of
\* the batch entries, the number of the serial entries and the BaseLineNumber
\* the entries carry.
Item(mode, quantity, bags, batches, serials) ==
  [mode |-> mode, quantity |-> quantity, fraction |-> 0, number_of_bags |-> bags,
   batch_numbers |-> batches, serial_numbers |-> serials, base |-> Missing]

\* An item that is neither batch- nor serial-managed, in one bag.
PlainItem == Item("N", 100, 1, <<>>, 0)

\* sum(... for b in batch_numbers)
RECURSIVE Sum(_)
Sum(quantities) ==
  IF quantities = <<>> THEN 0 ELSE Head(quantities) + Sum(Tail(quantities))

\* Mutant: a rejected request is committed as far as it went.
RolledBack_Committed(stored, session) == session

\* db.session.rollback(): the rows the session added or flushed are dropped.
RolledBack(stored, session) == stored

\* The loop of add_item_to_batch over the batch entries, which ends at the
\* first quantity that number_of_bags does not divide.
RECURSIVE BatchRows(_, _, _)
BatchRows(rows, entries, bags) ==
  IF entries = <<>> THEN [rows |-> rows, rejected |-> FALSE]
  ELSE IF bags > 1 /\ Head(entries) % bags # 0
    THEN [rows |-> rows, rejected |-> TRUE]
    ELSE BatchRows(Append(rows, Head(entries)), Tail(entries), bags)

\* qty_per_pack of a non-managed item, as the column keeps it (thousandths,
\* rounded).
PackQuantity(quantity, bags) ==
  IF bags > 1 THEN (2 * Milli(quantity) + bags) \div (2 * bags) ELSE Milli(quantity)

\* for pack_idx in range(1, number_of_bags + 1): one row per pack.
NonManagedPacks(quantity, bags) ==
  [k \in 1..bags |-> [pack_number |-> k, quantity |-> PackQuantity(quantity, bags)]]

\* The line of add_item_to_batch as the session holds it when the handler
\* commits or rolls back: flushed with is_complete = True, the warehouse of
\* the form and manage_method as SAP reports it, then given its detail rows.
AddItemSession(wh, item) ==
  LET line == [NewLine(-1, TRUE, wh) EXCEPT !.line_status = "manual",
                                            !.manage_method = item.mode,
                                            !.selected_quantity = item.quantity]
  IN IF item.mode = "B" /\ item.batch_numbers # <<>>
       THEN IF Sum(item.batch_numbers) # item.quantity
              THEN [line |-> line, rejected |-> TRUE]
              ELSE LET r == BatchRows(<<>>, item.batch_numbers, item.number_of_bags)
                   IN [line |-> [line EXCEPT !.batch_details = r.rows],
                       rejected |-> r.rejected]
     ELSE IF item.mode = "N"
       THEN [line |-> [line EXCEPT !.non_managed_details =
                         NonManagedPacks(item.quantity, item.number_of_bags)],
             rejected |-> FALSE]
       ELSE [line |-> line, rejected |-> FALSE]

\* add_item_to_batch: refused unless the batch is a draft, the form is valid
\* and the item is not serial-managed; link = 0 stands for a form without
\* po_link_id, which takes batch.po_links[0] and raises when the batch has no
\* link (answered 500 after a rollback).  The line is flushed before its
\* detail rows are validated; a quantity the validation refuses ends the
\* request with a rollback.
add_item_to_batch(link, valid, wh, item) ==
  /\ Exists
  /\ LET i == IF link = 0 THEN 1 ELSE link IN
     IF batch.status # "draft" \/ ~valid \/ item.mode = "S"
       THEN /\ UNCHANGED po_links
            /\ last' = Refused
       ELSE IF i > Len(po_links)
         THEN /\ UNCHANGED po_links
              /\ last' = Refused
         ELSE /\ Len(po_links[i].line_selections) < MaxLines
              /\ LET r == AddItemSession(wh, item)
                     session == [po_links EXCEPT ![i].line_selections = Append(@, r.line)]
                 IN IF r.rejected
                      THEN /\ po_links' = RolledBack(po_links, session)
                           /\ last' = Refused
                      ELSE /\ po_links' = session
                           /\ last' = Call("add_item")
  /\ UNCHANGED <<batch, sap_docs, qc_gate>>

\* inventory_type of validate_item_code.
InventoryType(mode) ==
  IF mode = "S" THEN "serial" ELSE IF mode = "B" THEN "batch" ELSE "standard"

\* The validation of add_manual_item: what it answers 400 to, by the mode SAP
\* reports.  A batch-managed item needs batch entries whose quantities are
\* positive and sum to the quantity; a serial-managed item needs serial
\* entries, a whole quantity and as many entries as units.  Entries of the
\* kind SAP does not report are not looked at.
ManualItemRejected(item) ==
  IF item.mode = "B"
    THEN \/ item.batch_numbers = <<>>
         \/ \E k \in 1..Len(item.batch_numbers) : item.batch_numbers[k] <= 0
         \/ Sum(item.batch_numbers) # item.quantity \/ item.fraction # 0
  ELSE IF item.mode = "S"
    THEN \/ item.serial_numbers = 0
         \/ item.fraction # 0
         \/ item.serial_numbers # item.quantity
    ELSE FALSE

\* The JSON that add_manual_item stores in batch_numbers and serial_numbers:
\* the entries of the request as they came (json.dumps), with the
\* BaseLineNumber the caller gave them or none; a serial entry need not carry
\* Quantity.
StoredBatchNumbers(item) ==
  IF item.mode = "B"
    THEN [k \in 1..Len(item.batch_numbers) |->
            [Quantity |-> item.batch_numbers[k], BaseLineNumber |-> item.base]]
    ELSE <<>>
StoredSerialNumbers(item) ==
  IF item.mode = "S"
    THEN [k \in 1..item.serial_numbers |->
            [Quantity |-> Missing, BaseLineNumber |-> item.base]]
    ELSE <<>>

\* add_manual_item: the link must exist and must not hold the item yet; the
\* item is validated with SAP.  No check of the batch status; is_complete and
\* manage_method keep their defaults, inventory_type is what SAP reports and
\* an empty warehouse becomes '7000-FG'.
add_manual_item(link, valid, item) ==
  /\ Exists
  /\ IF link > Len(po_links)
       THEN /\ UNCHANGED po_links
            /\ last' = Refused
       ELSE IF (\E j \in 1..Len(po_links[link].line_selections) :
                   po_links[link].line_selections[j].item_code = "ITM-1") \/ ~valid
                 \/ ManualItemRejected(item)
         THEN /\ UNCHANGED po_links
              /\ last' = Refused
         ELSE /\ Len(po_links[link].line_selections) < MaxLines
              /\ po_links' = [po_links EXCEPT ![link].line_selections =
                                Append(@, [NewLine(-1, FALSE, "7000-FG") EXCEPT
                                             !.line_status = "manual",
                                             !.inventory_type = InventoryType(item.mode),
                                             !.selected_quantity = item.quantity,
                                             !.batch_numbers = StoredBatchNumbers(item),
                                             !.serial_numbers = StoredSerialNumbers(item)])]
              /\ last' = Call("add_manual_item")
  /\ UNCHANGED <<batch, sap_docs, qc_gate>>

\* MultiGRNLineSelection.query.get_or_404(line_id): the line is named by the
\* position of its link and its position in the link.
HasLine(link, line) ==
  /\ link \in 1..Len(po_links)
  /\ line \in 1..Len(po_links[link].line_selections)

\* manage_batch_details (POST): a row of multi_grn_batch_details with the
\* quantity of the request, which must be positive (the batch number is
\* given).  No check of the batch, of its status or of the line's quantity.
manage_batch_details(link, line, quantity) ==
  /\ Exists
  /\ IF ~HasLine(link, line) \/ quantity <= 0
       THEN /\ UNCHANGED po_links
            /\ last' = Refused
       ELSE /\ Len(po_links[link].line_selections[line].batch_details) < MaxDetails
            /\ po_links' = [po_links EXCEPT ![link].line_selections[line].batch_details =
                              Append(@, quantity)]
            /\ last' = Call("batch_details")
  /\ UNCHANGED <<batch, sap_docs, qc_gate>>

\* manage_serial_details (POST): a row of multi_grn_serial_details; the
\* serial number is required.
manage_serial_details(link, line, valid) ==
  /\ Exists
  /\ IF ~HasLine(link, line) \/ ~valid
       THEN /\ UNCHANGED po_links
            /\ last' = Refused
       ELSE /\ po_links[link].line_selections[line].serial_details < MaxDetails
            /\ po_links' = [po_links EXCEPT ![link].line_selections[line].serial_details = @ + 1]
            /\ last' = Call("serial_details")
  /\ UNCHANGED <<batch, sap_docs, qc_gate>>

\* manage_non_managed_details (POST): a row of multi_grn_non_managed_details
\* with a positive quantity and the pack number of the request (1 when it
\* gives none).  No check of the line, of its quantity or of its item.
manage_non_managed_details(link, line, quantity) ==
  /\ Exists
  /\ IF ~HasLine(link, line) \/ quantity <= 0
       THEN /\ UNCHANGED po_links
            /\ last' = Refused
       ELSE /\ Len(po_links[link].line_selections[line].non_managed_details) < MaxDetails
            /\ po_links' = [po_links EXCEPT ![link].line_selections[line].non_managed_details =
                              Append(@, [pack_number |-> 1, quantity |-> Milli(quantity)])]
            /\ last' = Call("non_managed_details")
  /\ UNCHANGED <<batch, sap_docs, qc_gate>>

\* update_line_item: a quantity that is given (0: none is) overwrites
\* selected_quantity; number_of_bags > 0 replaces the rows of
\* multi_grn_batch_details of the line by one row per bag, each with the
\* quantity of the line divided by the bags.  No check of the batch, of its
\* status or of the item.
update_line_item(link, line, quantity, bags) ==
  /\ Exists
  /\ IF ~HasLine(link, line)
       THEN /\ UNCHANGED po_links
            /\ last' = Refused
       ELSE LET old == po_links[link].line_selections[line]
                selected == IF quantity # 0 THEN quantity ELSE old.selected_quantity
                rows == IF bags > 0 THEN [k \in 1..bags |-> selected \div bags]
                                    ELSE old.batch_details
            IN /\ po_links' = [po_links EXCEPT ![link].line_selections[line] =
                                 [old EXCEPT !.selected_quantity = selected,
                                             !.batch_details = rows]]
               /\ last' = Call("update_line_item")
  /\ UNCHANGED <<batch, sap_docs, qc_gate>>

----------------------------------------------------------------------------
\* Mutant: only the lines of the first PO link are updated.
SetLinesQC_FirstLink(links, s) ==
  [i \in 1..Len(links) |->
     IF i > 1 THEN links[i]
     ELSE [links[i] EXCEPT !.line_selections =
             [j \in 1..Len(@) |-> [@[j] EXCEPT !.qc_status = s]]]]

\* for po_link in batch.po_links: for line in po_link.line_selections:
\*     line.qc_status = s
SetLinesQC(links, s) ==
  [i \in 1..Len(links) |->
     [links[i] EXCEPT !.line_selections =
        [j \in 1..Len(@) |-> [@[j] EXCEPT !.qc_status = s]]]]

\* Mutant: no line is found incomplete.
IncompleteLines_None(links) == {}

\* incomplete_lines of submit_for_qc.
IncompleteLines(links) ==
  {<<i, j>> \in (1..Len(links)) \X (1..MaxLines + 1) :
     /\ j <= Len(links[i].line_selections)
     /\ \/ ~links[i].line_selections[j].is_complete
        \/ links[i].line_selections[j].warehouse_code = NoText}

\* Mutant: the status guard is missing.
SubmitAllowed_Always(b) == TRUE

\* The status guard of submit_for_qc.
SubmitAllowed(b) == b.status \in {"draft", "collecting"}

submit_for_qc ==
  /\ Exists
  /\ IF ~SubmitAllowed(batch) \/ IncompleteLines(po_links) # {}
       THEN /\ UNCHANGED batch
            /\ last' = Refused
       ELSE /\ batch' = [batch EXCEPT !.status = "pending_qc", !.qc_status = "pending",
                                      !.submitted_at = TRUE]
            /\ last' = Call("submit")
  /\ UNCHANGED <<po_links, sap_docs, qc_gate>>

\* Mutant: the approval leaves qc_status as it is.
Approved_StatusOnly(b, notes) ==
  [b EXCEPT !.status = "qc_approved", !.qc_reviewed_at = TRUE, !.qc_notes = notes]

\* The batch after qc_approve_batch accepted it.
Approved(b, notes) ==
  [b EXCEPT !.status = "qc_approved", !.qc_status = "approved",
            !.qc_reviewed_at = TRUE, !.qc_notes = notes]

\* Mutant: the check of the batch status is missing.
qc_approve_batch_Unguarded(notes) ==
  /\ Exists
  /\ batch' = Approved(batch, notes)
  /\ po_links' = SetLinesQC(po_links, "approved")
  /\ qc_gate' = TRUE
  /\ last' = Call("qc_approve")
  /\ UNCHANGED sap_docs

qc_approve_batch(notes) ==
  /\ Exists
  /\ IF batch.status # "pending_qc"
       THEN /\ UNCHANGED <<batch, po_links, qc_gate>>
            /\ last' = Refused
       ELSE /\ batch' = Approved(batch, notes)
            /\ po_links' = SetLinesQC(po_links, "approved")
            /\ qc_gate' = TRUE
            /\ last' = Call("qc_approve")
  /\ UNCHANGED sap_docs

qc_reject_batch(notes) ==
  /\ Exists
  /\ IF batch.status # "pending_qc" \/ notes = NoText
       THEN /\ UNCHANGED <<batch, po_links, qc_gate>>
            /\ last' = Refused
       ELSE /\ batch' = [batch EXCEPT !.status = "qc_rejected", !.qc_status = "rejected",
                                      !.qc_reviewed_at = TRUE, !.qc_notes = notes]
            /\ po_links' = SetLinesQC(po_links, "rejected")
            /\ qc_gate' = FALSE
            /\ last' = Call("qc_reject")
  /\ UNCHANGED sap_docs

\* Mutant: the reset also removes the line selections.
reset_batch_for_resubmission_DropsLines ==
  /\ Exists
  /\ IF batch.status # "qc_rejected"
       THEN /\ UNCHANGED <<batch, po_links, qc_gate>>
            /\ last' = Refused
       ELSE /\ batch' = [batch EXCEPT !.status = "draft", !.qc_status = "pending",
                                      !.qc_notes = NoText, !.submitted_at = FALSE]
            /\ po_links' = [i \in 1..Len(po_links) |->
                              [po_links[i] EXCEPT !.line_selections = <<>>]]
            /\ qc_gate' = FALSE
            /\ last' = Call("reset")
  /\ UNCHANGED sap_docs

\* Mutant: a batch of any status is reset.
reset_batch_for_resubmission_AnyStatus ==
  /\ Exists
  /\ batch' = [batch EXCEPT !.status = "draft", !.qc_status = "pending",
                            !.qc_notes = NoText, !.submitted_at = FALSE]
  /\ po_links' = SetLinesQC(po_links, "pending")
  /\ qc_gate' = FALSE
  /\ last' = Call("reset")
  /\ UNCHANGED sap_docs

reset_batch_for_resubmission ==
  /\ Exists
  /\ IF batch.status # "qc_rejected"
       THEN /\ UNCHANGED <<batch, po_links, qc_gate>>
            /\ last' = Refused
       ELSE /\ batch' = [batch EXCEPT !.status = "draft", !.qc_status = "pending",
                                      !.qc_notes = NoText, !.submitted_at = FALSE]
            /\ po_links' = SetLinesQC(po_links, "pending")
            /\ qc_gate' = FALSE
            /\ last' = Call("reset")
  /\ UNCHANGED sap_docs

----------------------------------------------------------------------------
\* Mutant: the idempotency check is missing.
AlreadyPosted_Never(l) == FALSE

\* The idempotency check of create_step5_post.
AlreadyPosted(l) == l.status = "posted" \/ l.sap_grn_doc_entry # NoNumber

\* DocEntry / DocNum that SAP gives to the k-th goods receipt it creates for
\* a purchase order: distinct for distinct documents.
DocEntryOf(po, k) == (k - 1) * MaxPOs + po

\* The largest number of 401 answers the endpoint gives in a row.
Max401 == 2

\* How the Service Layer treats the session of one handler run: the number of
\* document-creation requests, from the next one on, that it answers with
\* 401, and whether login() succeeds.
Auth(denied, login) == [denied |-> denied, login |-> login]

\* The session never expires and login() succeeds.
Authorised == Auth(0, TRUE)

\* SAPMultiGRNService(): session_id is None until login() sets it.
NewSession(auth) == [session_id |-> FALSE, denied |-> auth.denied, login |-> auth.login]

\* The answer of create_purchase_delivery_note when it creates no document,
\* after so many requests.
NotCreated(error, session, requests) ==
  [success |-> FALSE, doc_entry |-> NoNumber, doc_num |-> NoNumber,
   error |-> error, session |-> session, requests |-> requests]

\* SAPMultiGRNService.create_purchase_delivery_note for the document of
\* purchase order po, when the endpoint refuses the documents of the purchase
\* orders in failing and has created docs[po] documents for po so far:
\* ensure_logged_in, the request and, on 401, login() and the same call
\* again.  requests counts the requests sent to PurchaseDeliveryNotes.
RECURSIVE create_purchase_delivery_note(_, _, _, _, _)
create_purchase_delivery_note(po, failing, docs, session, requests) ==
  IF ~session.session_id /\ ~session.login
    THEN NotCreated("SAP login failed - GRN not created", session, requests)
  ELSE IF session.denied > 0
    THEN LET expired == [session EXCEPT !.session_id = FALSE, !.denied = @ - 1] IN
         IF session.login
           THEN create_purchase_delivery_note(po, failing, docs,
                  [expired EXCEPT !.session_id = TRUE], requests + 1)
           ELSE NotCreated("Authentication failed", expired, requests + 1)
  ELSE IF po \in failing
    THEN NotCreated("rejected", [session EXCEPT !.session_id = TRUE], requests + 1)
    ELSE [success |-> TRUE, doc_entry |-> DocEntryOf(po, docs[po] + 1),
          doc_num |-> DocEntryOf(po, docs[po] + 1), error |-> NoText,
          session |-> [session EXCEPT !.session_id = TRUE], requests |-> requests + 1]

\* The documents SAP holds after answering result for po.
DocsAfter(docs, po, result) ==
  IF result.success THEN [docs EXCEPT ![po] = @ + 1] ELSE docs

\* A PO link after its document was created (both handlers).
PostedLink(l, result) ==
  [l EXCEPT !.status = "posted", !.sap_grn_doc_num = result.doc_num,
            !.sap_grn_doc_entry = result.doc_entry, !.posted_at = TRUE,
            !.error_message = NoText]

\* Mutant: the link is marked failed without the error of the endpoint.
FailedLink_NoError(l, result) ==
  [l EXCEPT !.status = "failed"]

\* A PO link after create_step5_post failed to create its document.
FailedLink(l, result) ==
  [l EXCEPT !.status = "failed", !.error_message = result.error]

\* Mutant: a retry that fails puts the link back to selected.
RetryFailedLink_Reselected(l, result) ==
  [l EXCEPT !.status = "selected", !.error_message = "Retry failed: " \o result.error]

\* A PO link after retry_posting failed to create its document.
RetryFailedLink(l, result) ==
  [l EXCEPT !.error_message = "Retry failed: " \o result.error]

\* One line of the loop "for line in po_link.line_selections" of
\* create_step5_post: doc_line, with the keys it does not set as Missing or
\* empty.  line_number is the position of the line in DocumentLines.
PostLine(po_link, line, line_number) ==
  LET manual == line.line_status = "manual" \/ line.po_line_num = -1
      doc_line ==
        [BaseType |-> IF manual THEN Missing ELSE 22,
         BaseEntry |-> IF manual THEN Missing ELSE po_link.po_doc_entry,
         BaseLine |-> IF manual THEN Missing ELSE line.po_line_num,
         ItemCode |-> line.item_code,
         Quantity |-> line.selected_quantity,
         WarehouseCode |-> IF line.warehouse_code = NoText THEN "7000-FG"
                                                         ELSE line.warehouse_code,
         BinAllocations |-> IF line.bin_location = NoText THEN <<>>
                            ELSE <<[BinAbsEntry |-> line.bin_location,
                                    Quantity |-> line.selected_quantity]>>,
         BatchNumbers |-> <<>>, SerialNumbers |-> <<>>]
  IN IF line.batch_details # <<>>
       THEN [doc_line EXCEPT !.BatchNumbers =
               [k \in 1..Len(line.batch_details) |->
                  [Quantity |-> line.batch_details[k], BaseLineNumber |-> line_number]]]
     ELSE IF line.serial_details > 0
       THEN [doc_line EXCEPT !.SerialNumbers =
               [k \in 1..line.serial_details |->
                  [Quantity |-> 1, BaseLineNumber |-> line_number]]]
     ELSE IF line.serial_numbers # <<>>
       THEN [doc_line EXCEPT !.SerialNumbers = line.serial_numbers]
     ELSE IF line.batch_numbers # <<>>
       THEN [doc_line EXCEPT !.BatchNumbers = line.batch_numbers]
     ELSE doc_line

\* document_lines of create_step5_post, with its counter line_number.
RECURSIVE PostLines(_, _, _, _)
PostLines(po_link, lines, line_number, document_lines) ==
  IF lines = <<>> THEN document_lines
  ELSE PostLines(po_link, Tail(lines), line_number + 1,
                 Append(document_lines, PostLine(po_link, Head(lines), line_number)))

\* grn_data of create_step5_post (the batch has id 1; the dates are those of
\* the day).
PostDocument(po_link) ==
  [CardCode |-> po_link.po_card_code,
   Comments |-> "Auto-created from batch 1",
   NumAtCard |-> [BATCH |-> 1, PO |-> po_link.po_doc_num],
   DocumentLines |-> PostLines(po_link, po_link.line_selections, 0, <<>>)]

\* Mutant: the entries of every line carry the position of the first line.
RetryLine_FirstPosition(po_link, line, line_number) ==
  PostLine(po_link, line, 0)

\* One line of the loop "for line in po_link.line_selections" of
\* retry_posting.
RetryLine(po_link, line, line_number) ==
  LET manual == line.line_status = "manual" \/ line.po_line_num = -1
      doc_line ==
        [BaseType |-> IF manual THEN Missing ELSE 22,
         BaseEntry |-> IF manual THEN Missing ELSE po_link.po_doc_entry,
         BaseLine |-> IF manual THEN Missing ELSE line.po_line_num,
         ItemCode |-> line.item_code,
         Quantity |-> line.selected_quantity,
         WarehouseCode |-> IF line.warehouse_code = NoText THEN "7000-FG"
                                                         ELSE line.warehouse_code,
         BinAllocations |-> IF line.bin_location = NoText THEN <<>>
                            ELSE <<[BinAbsEntry |-> line.bin_location,
                                    Quantity |-> line.selected_quantity]>>,
         BatchNumbers |-> <<>>, SerialNumbers |-> <<>>]
  IN IF line.batch_details # <<>>
       THEN [doc_line EXCEPT !.BatchNumbers =
               [k \in 1..Len(line.batch_details) |->
                  [Quantity |-> line.batch_details[k], BaseLineNumber |-> line_number]]]
     ELSE IF line.serial_details > 0
       THEN [doc_line EXCEPT !.SerialNumbers =
               [k \in 1..line.serial_details |->
                  [Quantity |-> 1, BaseLineNumber |-> line_number]]]
     ELSE IF line.serial_numbers # <<>>
       THEN [doc_line EXCEPT !.SerialNumbers = line.serial_numbers]
     ELSE IF line.batch_numbers # <<>>
       THEN [doc_line EXCEPT !.BatchNumbers = line.batch_numbers]
     ELSE doc_line

\* document_lines of retry_posting, with its counter line_number.
RECURSIVE RetryLines(_, _, _, _)
RetryLines(po_link, lines, line_number, document_lines) ==
  IF lines = <<>> THEN document_lines
  ELSE RetryLines(po_link, Tail(lines), line_number + 1,
                  Append(document_lines, RetryLine(po_link, Head(lines), line_number)))

\* grn_data of retry_posting.
RetryDocument(po_link) ==
  [CardCode |-> po_link.po_card_code,
   Comments |-> "Retry - Auto-created from batch 1",
   NumAtCard |-> [BATCH |-> 1, PO |-> po_link.po_doc_num],
   DocumentLines |-> RetryLines(po_link, po_link.line_selections, 0, <<>>)]

\* The state a posting loop carries: the links as the session holds them, the
\* length of results, success_count, the links a document-creation request
\* was sent for, the documents built and the requests sent for each link,
\* SAP's documents, the session of sap_service, and whether an exception left
\* the loop.
LoopStart(links, docs, auth) ==
  [links |-> links, results |-> 0, success_count |-> 0, sent |-> {},
   documents |-> <<>>, requests |-> [i \in 1..Len(links) |-> 0],
   docs |-> docs, session |-> NewSession(auth), raised |-> FALSE]

\* One PO link of the loop of create_step5_post.  fault is the link whose
\* document construction raises (0: none does).
PostStep(acc, i, failing, fault) ==
  LET l == acc.links[i] IN
  IF AlreadyPosted(l)
    THEN [acc EXCEPT !.success_count = @ + 1, !.results = @ + 1]
  ELSE IF l.line_selections = <<>>
    THEN acc
  ELSE IF fault = i
    THEN [acc EXCEPT !.raised = TRUE]
  ELSE LET grn_data == PostDocument(l)
           result == create_purchase_delivery_note(l.po_doc_num, failing, acc.docs,
                                                   acc.session, 0) IN
    [acc EXCEPT !.links[i] = IF result.success THEN PostedLink(l, result)
                                               ELSE FailedLink(l, result),
                !.success_count = IF result.success THEN @ + 1 ELSE @,
                !.results = @ + 1,
                !.sent = IF result.requests > 0 THEN @ \cup {i} ELSE @,
                !.documents = Append(@, [link |-> i, grn_data |-> grn_data]),
                !.requests[i] = result.requests,
                !.session = result.session,
                !.docs = DocsAfter(@, l.po_doc_num, result)]

\* Mutant: the loop ends at the first link whose document is refused.
RECURSIVE PostLoop_StopOnFailure(_, _, _, _)
PostLoop_StopOnFailure(acc, i, failing, fault) ==
  IF i > Len(acc.links) \/ acc.raised
       \/ \E j \in acc.sent : acc.links[j].status = "failed"
    THEN acc
    ELSE PostLoop_StopOnFailure(PostStep(acc, i, failing, fault), i + 1, failing, fault)

\* for po_link in batch.po_links, from link i on, until an exception.
RECURSIVE PostLoop(_, _, _, _)
PostLoop(acc, i, failing, fault) ==
  IF i > Len(acc.links) \/ acc.raised THEN acc
  ELSE PostLoop(PostStep(acc, i, failing, fault), i + 1, failing, fault)

\* Mutant: the check of qc_status is missing.
PostAllowed_NoQC(b) == b.status \in {"qc_approved", "pending_qc"}

\* The guards of create_step5_post.
PostAllowed(b) ==
  b.qc_status = "approved" /\ b.status \in {"qc_approved", "pending_qc"}

\* Mutant: total_grns_created is added to instead of set.
BatchAfterPost_Accumulate(b, success_count, total_po_links) ==
  LET c == IF success_count = total_po_links
             THEN [b EXCEPT !.status = "completed", !.completed_at = TRUE,
                            !.posted_at = TRUE, !.posted_by_id = TRUE,
                            !.error_log = NoLog]
           ELSE IF success_count > 0
             THEN [b EXCEPT !.status = "qc_approved",
                            !.error_log = <<"partial", success_count, total_po_links,
                                            total_po_links - success_count>>]
             ELSE [b EXCEPT !.status = "qc_approved",
                            !.error_log = <<"all failed", total_po_links>>]
  IN [c EXCEPT !.total_grns_created = @ + success_count]

\* Mutant: one success is enough to complete the batch.
BatchAfterPost_AnySuccess(b, success_count, total_po_links) ==
  LET c == IF success_count > 0 \/ total_po_links = 0
             THEN [b EXCEPT !.status = "completed", !.completed_at = TRUE,
                            !.posted_at = TRUE, !.posted_by_id = TRUE,
                            !.error_log = NoLog]
             ELSE [b EXCEPT !.status = "qc_approved",
                            !.error_log = <<"all failed", total_po_links>>]
  IN [c EXCEPT !.total_grns_created = success_count]

\* "Update batch status based on results" of create_step5_post.
BatchAfterPost(b, success_count, total_po_links) ==
  LET failed_count == total_po_links - success_count
      c == IF success_count = total_po_links
             THEN [b EXCEPT !.status = "completed", !.completed_at = TRUE,
                            !.posted_at = TRUE, !.posted_by_id = TRUE,
                            !.error_log = NoLog]
           ELSE IF success_count > 0
             THEN [b EXCEPT !.status = "qc_approved",
                            !.error_log = <<"partial", success_count,
                                            total_po_links, failed_count>>]
             ELSE [b EXCEPT !.status = "qc_approved",
                            !.error_log = <<"all failed", total_po_links>>]
  IN [c EXCEPT !.total_grns_created = success_count]

\* Mutant: the except branch marks the batch failed.
BatchAfterPostError_Failed(b) ==
  [b EXCEPT !.status = "failed", !.error_log = <<"system error">>]

\* The except branch of create_step5_post; its commit also stores what the
\* loop had written to the PO links.
BatchAfterPostError(b) ==
  [b EXCEPT !.status = "qc_approved", !.error_log = <<"system error">>]

create_step5_post(failing, fault, auth) ==
  /\ Exists
  /\ IF ~PostAllowed(batch)
       THEN /\ UNCHANGED <<batch, po_links, sap_docs>>
            /\ last' = Refused
       ELSE LET r == PostLoop(LoopStart(po_links, sap_docs, auth), 1, failing, fault)
                in == [Call("post") EXCEPT !.failing = failing, !.fault = fault,
                                          !.sent = r.sent,
                                          !.documents = r.documents,
                                          !.requests = r.requests,
                                          !.again = /\ last.op = "post"
                                                    /\ last.failing = failing
                                                    /\ last.fault = fault] IN
            /\ \A p \in POs : r.docs[p] <= MaxDocs
            /\ po_links' = r.links
            /\ sap_docs' = r.docs
            /\ IF r.raised
                 THEN /\ batch' = BatchAfterPostError(batch)
                      /\ last' = [in EXCEPT !.raised = TRUE, !.success = FALSE,
                                            !.allow_retry = TRUE]
                 ELSE /\ batch' = BatchAfterPost(batch, r.success_count, r.results)
                      /\ last' = [in EXCEPT !.success = r.success_count > 0,
                                            !.total_success = r.success_count,
                                            !.total_failed = r.results - r.success_count,
                                            !.allow_retry = r.results - r.success_count > 0]
  /\ UNCHANGED qc_gate

\* failed_po_links of retry_posting, in the order of batch.po_links.
FailedLinks(links) == {i \in 1..Len(links) : links[i].status = "failed"}

\* One failed PO link of the loop of retry_posting.
RetryStep(acc, i, failing, fault) ==
  LET l == acc.links[i] IN
  IF l.sap_grn_doc_entry # NoNumber
    THEN [acc EXCEPT !.results = @ + 1]
  ELSE IF l.line_selections = <<>>
    THEN [acc EXCEPT !.results = @ + 1]
  ELSE IF fault = i
    THEN [acc EXCEPT !.raised = TRUE]
  ELSE LET grn_data == RetryDocument(l)
           result == create_purchase_delivery_note(l.po_doc_num, failing, acc.docs,
                                                   acc.session, 0) IN
    [acc EXCEPT !.links[i] = IF result.success THEN PostedLink(l, result)
                                               ELSE RetryFailedLink(l, result),
                !.success_count = IF result.success THEN @ + 1 ELSE @,
                !.results = @ + 1,
                !.sent = IF result.requests > 0 THEN @ \cup {i} ELSE @,
                !.documents = Append(@, [link |-> i, grn_data |-> grn_data]),
                !.requests[i] = result.requests,
                !.session = result.session,
                !.docs = DocsAfter(@, l.po_doc_num, result)]

\* for po_link in failed_po_links, from link i on, until an exception.
RECURSIVE RetryLoop(_, _, _, _, _)
RetryLoop(acc, i, retried, failing, fault) ==
  IF i > Len(acc.links) \/ acc.raised THEN acc
  ELSE IF i \in retried
    THEN RetryLoop(RetryStep(acc, i, failing, fault), i + 1, retried, failing, fault)
    ELSE RetryLoop(acc, i + 1, retried, failing, fault)

\* total_posted of retry_posting: the rescan of every PO link of the batch.
TotalPosted(links) == Cardinality({i \in 1..Len(links) : links[i].status = "posted"})

\* Mutant: completion is decided by the retried links alone.
BatchAfterRetry_RetriedOnly(b, links, success_count, total_retry_links) ==
  LET total_posted == TotalPosted(links)
      c == IF success_count = total_retry_links
             THEN [b EXCEPT !.status = "completed", !.completed_at = TRUE,
                            !.posted_at = TRUE, !.posted_by_id = TRUE,
                            !.error_log = NoLog]
           ELSE IF success_count > 0
             THEN [b EXCEPT !.error_log = <<"retry partial", success_count,
                                            total_retry_links, total_posted, Len(links)>>]
             ELSE b
  IN [c EXCEPT !.total_grns_created = total_posted]

\* "Update batch status" of retry_posting.
BatchAfterRetry(b, links, success_count, total_retry_links) ==
  LET total_posted == TotalPosted(links)
      total_links == Len(links)
      c == IF total_posted = total_links
             THEN [b EXCEPT !.status = "completed", !.completed_at = TRUE,
                            !.posted_at = TRUE, !.posted_by_id = TRUE,
                            !.error_log = NoLog]
           ELSE IF success_count > 0
             THEN [b EXCEPT !.error_log = <<"retry partial", success_count,
                                            total_retry_links, total_posted, total_links>>]
             ELSE b
  IN [c EXCEPT !.total_grns_created = total_posted]

\* Mutant: the check for failed links is missing.
RetryAllowed_NoFailedCheck(b, links) == b.status = "qc_approved"

\* The guards of retry_posting.
RetryAllowed(b, links) == b.status = "qc_approved" /\ FailedLinks(links) # {}

\* retry_posting: its except branch rolls the session back, so nothing the
\* loop wrote is stored, while SAP keeps the documents it created.
retry_posting(failing, fault, auth) ==
  /\ Exists
  /\ IF ~RetryAllowed(batch, po_links)
       THEN /\ UNCHANGED <<batch, po_links, sap_docs>>
            /\ last' = Refused
       ELSE LET retried == FailedLinks(po_links)
                r == RetryLoop(LoopStart(po_links, sap_docs, auth), 1, retried, failing, fault)
                in == [Call("retry") EXCEPT !.failing = failing, !.fault = fault,
                                           !.sent = r.sent,
                                           !.documents = r.documents,
                                           !.requests = r.requests] IN
            /\ \A p \in POs : r.docs[p] <= MaxDocs
            /\ sap_docs' = r.docs
            /\ IF r.raised
                 THEN /\ UNCHANGED <<batch, po_links>>
                      /\ last' = [in EXCEPT !.raised = TRUE, !.success = FALSE]
                 ELSE /\ po_links' = r.links
                      /\ batch' = BatchAfterRetry(batch, r.links, r.success_count,
                                                  Cardinality(retried))
                      /\ last' = [in EXCEPT !.success = r.success_count > 0,
                                            !.total_success = r.success_count,
                                            !.total_failed = Cardinality(retried) - r.success_count,
                                            !.allow_retry = FailedLinks(r.links) # {}]
  /\ UNCHANGED qc_gate

----------------------------------------------------------------------------
\* The inputs of the requests.  Purchase orders are interchangeable, so the
\* ones not yet linked are selected in the order of their numbers; a selection
\* holds new purchase orders, linked ones, or the same one twice.
Selections ==
  LET n == Len(po_links)
      new == {<<p>> : p \in {n + 1} \cap POs}
               \cup {<<p, p + 1>> : p \in {q \in {n + 1} : q + 1 \in POs}}
               \cup {<<p, p>> : p \in {n + 1} \cap POs}
      old == {<<p>> : p \in 1..n} \cup {<<p, n + 1>> : p \in {q \in 1..n : n + 1 \in POs}}
  IN {<<>>} \cup new \cup old
Warehouses == {NoText, "WH"}
Notes == {NoText, "note"}
LinkIds == 1..(Len(po_links) + 1)
\* The posting workflow is followed with at most one line per link.
Unfilled(link) ==
  LET i == IF link = 0 THEN 1 ELSE link
  IN i > Len(po_links) \/ po_links[i].line_selections = <<>>
AddItemInputs ==
  {<<link, TRUE, wh>> : link \in {l \in {0} \cup LinkIds : Unfilled(l)}, wh \in Warehouses}
    \cup {<<0, FALSE, "WH">>}

\* The links a posting (a retry) would build a document for, and the
\* behaviours of the endpoint that such a call can tell apart: fault is the
\* link whose document construction raises (0: none), failing the purchase
\* orders, among those requested before the fault, that the endpoint refuses.
PostTargets ==
  {i \in 1..Len(po_links) : ~AlreadyPosted(po_links[i]) /\ po_links[i].line_selections # <<>>}
RetryTargets ==
  {i \in FailedLinks(po_links) : po_links[i].sap_grn_doc_entry = NoNumber
                                     /\ po_links[i].line_selections # <<>>}
Requested(targets, fault) ==
  {po_links[i].po_doc_num : i \in {k \in targets : fault = 0 \/ k < fault}}

\* What the posting workflow leaves alone.
aside == <<req, other>>

Next ==
  \/ \E valid \in BOOLEAN : create_step1_customer(valid) /\ UNCHANGED aside
  \/ delete_batch /\ UNCHANGED aside
  \/ \E selected \in Selections : create_step2_select_pos(selected) /\ UNCHANGED aside
  \/ \E in \in AddItemInputs : add_item_to_batch(in[1], in[2], in[3], PlainItem) /\ UNCHANGED aside
  \/ submit_for_qc /\ UNCHANGED aside
  \/ qc_approve_batch(NoText) /\ UNCHANGED aside
  \/ \E notes \in Notes : qc_reject_batch(notes) /\ UNCHANGED aside
  \/ reset_batch_for_resubmission /\ UNCHANGED aside
  \/ \E fault \in {0} \cup PostTargets : \E failing \in SUBSET Requested(PostTargets, fault) :
       create_step5_post(failing, fault, Authorised) /\ UNCHANGED aside
  \/ \E fault \in {0} \cup RetryTargets : \E failing \in SUBSET Requested(RetryTargets, fault) :
       retry_posting(failing, fault, Authorised) /\ UNCHANGED aside

Spec == Init /\ [][Next]_vars

----------------------------------------------------------------------------
\* The line-level workflow: the selection and entry of lines and of their
\* detail rows, QC and a posting the endpoint accepts, followed request by
\* request (req names the handler and what it was asked), beside a second
\* batch of the same tables.

\* Another batch: submitted, one PO link with one complete line that holds a
\* row of each detail table.
OtherBatch ==
  [status |-> "pending_qc",
   po_links |-> <<[NewPOLink(1) EXCEPT !.line_selections =
                     <<[NewLine(-1, TRUE, "WH") EXCEPT !.batch_details = <<100>>,
                                                       !.serial_details = 1,
                                                       !.non_managed_details =
                                                         <<[pack_number |-> 1,
                                                            quantity |-> Milli(100)]>>]>>]>>]

InitLines ==
  /\ batch = NoBatch
  /\ po_links = <<>>
  /\ sap_docs = [p \in POs |-> 0]
  /\ qc_gate = FALSE
  /\ last = Call("none")
  /\ req = NoRequest
  /\ other = OtherBatch

\* A request of the line-level workflow: it is recorded, and it leaves the
\* rows of the other batch alone (every handler works on the rows reached
\* from the batch, the line or the link its URL or form names).
Serve(op, arg) ==
  /\ req' = Request(op, arg)
  /\ UNCHANGED other

\* The inputs of the line-level workflow: two purchase orders; the open PO
\* line with a quantity of 100, or of 40 when it is selected for the first
\* link alone; items entered for the first link; detail rows entered for its
\* first line in one order (the three tables are written independently of
\* each other): a batch row of 60, one of 40, a serial row, a non-managed row.
LinePOs == 1..(MaxPOs - 1)
LineSelections == {sel \in Selections : \A k \in 1..Len(sel) : sel[k] \in LinePOs}
LineChoices ==
  {<<chosen, 100>> : chosen \in SUBSET (1..Len(po_links))} \cup {<<{l}, 40>> : l \in {1} \cap (1..Len(po_links))}
FirstLine == po_links[1].line_selections[1]
BatchQuantities ==
  {0} \cup (IF HasLine(1, 1) /\ FirstLine.batch_details # <<>> THEN {40} ELSE {60})
SerialInputs ==
  {FALSE} \cup {TRUE : ok \in {l \in {1} : HasLine(1, 1) /\ Len(FirstLine.batch_details) = 2
                                              /\ FirstLine.serial_details = 0}}
NonManagedInputs ==
  {0} \cup {100 : ok \in {l \in {1} : HasLine(1, 1) /\ FirstLine.serial_details = 1
                                          /\ FirstLine.non_managed_details = <<>>}}

\* What the batch owns when a request reaches it: nothing, PO links, line
\* selections or, below them, detail rows.
Owned ==
  IF \E i \in 1..Len(po_links) : \E j \in 1..Len(po_links[i].line_selections) :
       /\ po_links[i].line_selections[j].batch_details # <<>>
       /\ po_links[i].line_selections[j].serial_details > 0
       /\ po_links[i].line_selections[j].non_managed_details # <<>>
    THEN "details"
  ELSE IF \E i \in 1..Len(po_links) : po_links[i].line_selections # <<>> THEN "lines"
  ELSE IF po_links # <<>> THEN "links"
  ELSE NoText

NextLines ==
  \/ \E valid \in BOOLEAN : create_step1_customer(valid) /\ Serve("create", NoText)
  \/ delete_batch /\ Serve("delete", Owned)
  \/ \E selected \in LineSelections :
       create_step2_select_pos(selected)
         /\ Serve("select_pos", IF SkippedCount(po_links, selected) > 0
                                  THEN "skipped" ELSE NoText)
  \/ \E in \in LineChoices :
       create_step3_select_lines(in[1], in[2]) /\ Serve("select_lines", NoText)
  \/ \E valid \in BOOLEAN : \E wh \in Warehouses :
       add_item_to_batch(1, valid, wh, PlainItem) /\ Serve("add_item", NoText)
  \/ \E valid \in BOOLEAN :
       add_manual_item(1, valid, PlainItem) /\ Serve("add_manual_item", NoText)
  \/ \E quantity \in BatchQuantities :
       manage_batch_details(1, 1, quantity) /\ Serve("batch_details", NoText)
  \/ \E valid \in SerialInputs : manage_serial_details(1, 1, valid) /\ Serve("serial_details", NoText)
  \/ \E quantity \in NonManagedInputs :
       manage_non_managed_details(1, 1, quantity) /\ Serve("non_managed_details", NoText)
  \/ submit_for_qc /\ Serve("submit", NoText)
  \/ qc_approve_batch(NoText) /\ Serve("qc_approve", NoText)
  \/ \E notes \in Notes : qc_reject_batch(notes) /\ Serve("qc_reject", notes)
  \/ reset_batch_for_resubmission /\ Serve("reset", NoText)
  \/ create_step5_post({}, 0, Authorised) /\ Serve("post", NoText)

SpecLines == InitLines /\ [][NextLines]_vars

----------------------------------------------------------------------------
\* The entry of items: one draft batch with one PO link, to which items are
\* added with what SAP reports and what the request carries about them, and
\* whose first line is then updated and given detail rows.

\* The largest number_of_bags requested.
MaxBags == 3

\* The forms of add_item_to_batch: a quantity of 100 of an item that is not
\* managed, in 0..MaxBags bags; of a batch-managed item with no batch entry,
\* one of 100, two of 60 and 40 or one of 60, in one bag or in MaxBags bags;
\* of a serial-managed item.
AddItems ==
  {Item("N", 100, bags, <<>>, 0) : bags \in 0..MaxBags}
    \cup {Item("B", 100, bags, batches, 0) :
            bags \in {1, MaxBags}, batches \in {<<>>, <<100>>, <<60, 40>>, <<60>>}}
    \cup {Item("S", 2, 1, <<>>, 2)}

\* The bodies of add_manual_item: an item of each mode, with batch entries
\* (that sum to the quantity or not), serial entries (as many as units or
\* not), both or neither; a serial-managed item in a fractional quantity.
ManualItems ==
  {Item(mode, 100, 1, batches, serials) :
     mode \in {"N", "B"}, batches \in {<<>>, <<60, 40>>, <<60>>}, serials \in {0, 2}}
    \cup {Item("S", 2, 1, batches, serials) : batches \in {<<>>, <<2>>}, serials \in {0, 1, 2}}
    \cup {[Item("S", 2, 1, <<>>, 2) EXCEPT !.fraction = 500]}

\* The bodies of update_line_item: no quantity or a new one, no bags or two.
LineUpdates == {0, 40} \X {0, 2}

NextItems ==
  \/ create_step1_customer(TRUE) /\ Serve("create", NoText)
  \/ create_step2_select_pos(<<1>>) /\ Serve("select_pos", NoText)
  \/ \E item \in AddItems :
       add_item_to_batch(1, TRUE, "WH", item) /\ Serve("add_item", item)
  \/ \E item \in ManualItems :
       add_manual_item(1, TRUE, item) /\ Serve("add_manual_item", item)
  \/ \E in \in LineUpdates :
       update_line_item(1, 1, in[1], in[2]) /\ Serve("update_line_item", in)
  \/ \E quantity \in BatchQuantities :
       manage_batch_details(1, 1, quantity) /\ Serve("batch_details", quantity)
  \/ \E valid \in SerialInputs :
       manage_serial_details(1, 1, valid) /\ Serve("serial_details", NoText)
  \/ \E quantity \in NonManagedInputs :
       manage_non_managed_details(1, 1, quantity) /\ Serve("non_managed_details", quantity)

SpecItems == Init /\ [][NextItems]_vars

----------------------------------------------------------------------------
\* The documents: one batch with one PO link, whose lines are entered with
\* add_item_to_batch before the submission and with add_manual_item at any
\* time, and which is posted and retried against an endpoint that accepts or
\* refuses the document and answers 401 to some requests.

\* The forms of add_item_to_batch: an item that is not managed; a
\* batch-managed item with batch entries of 60 and 40.
DocItems == {PlainItem, Item("B", 100, 1, <<60, 40>>, 0)}

\* The bodies of add_manual_item: an item that is not managed; a
\* batch-managed item with batch entries of 60 and 40 that carry no
\* BaseLineNumber; a serial-managed item with two serial entries that carry
\* BaseLineNumber 0.
DocManualItems ==
  {PlainItem, Item("B", 100, 1, <<60, 40>>, 0),
   [Item("S", 2, 1, <<>>, 2) EXCEPT !.base = 0]}

\* What the Service Layer does with the session during one request.
Auths == {Auth(denied, login) : denied \in 0..Max401, login \in BOOLEAN}

NextDocs ==
  \/ create_step1_customer(TRUE) /\ UNCHANGED aside
  \/ create_step2_select_pos(<<1>>) /\ UNCHANGED aside
  \/ \E item \in DocItems : add_item_to_batch(1, TRUE, "WH", item) /\ UNCHANGED aside
  \/ \E item \in DocManualItems : add_manual_item(1, TRUE, item) /\ UNCHANGED aside
  \/ submit_for_qc /\ UNCHANGED aside
  \/ qc_approve_batch(NoText) /\ UNCHANGED aside
  \/ \E failing \in SUBSET {1} : \E auth \in Auths :
       create_step5_post(failing, 0, auth) /\ UNCHANGED aside
  \/ \E failing \in SUBSET {1} : \E auth \in Auths :
       retry_posting(failing, 0, auth) /\ UNCHANGED aside

SpecDocs == Init /\ [][NextDocs]_vars

----------------------------------------------------------------------------
\* The rows of an earlier release: one draft batch with one PO link whose
\* lines were stored before the detail tables existed, with their batch and
\* serial numbers in the JSON columns, submitted, approved, posted and
\* retried.

\* A line of an earlier release: each of batch_numbers and serial_numbers is
\* NULL or holds entries.
LegacyLine(batches, serials) ==
  [NewLine(-1, TRUE, "7000-FG") EXCEPT
     !.line_status = "manual",
     !.batch_numbers = [k \in 1..batches |-> [Quantity |-> 100, BaseLineNumber |-> 0]],
     !.serial_numbers = [k \in 1..serials |-> [Quantity |-> 1, BaseLineNumber |-> 0]]]

LegacyLines == {LegacyLine(batches, serials) : batches \in 0..1, serials \in 0..1}

\* The line selections of the link: up to MaxLines lines.
LegacySelections ==
  UNION {[1..n -> LegacyLines] : n \in 1..MaxLines}

InitLegacy ==
  /\ batch = [NewBatch EXCEPT !.total_pos = 1]
  /\ po_links \in {<<[NewPOLink(1) EXCEPT !.line_selections = lines]>> :
                     lines \in LegacySelections}
  /\ sap_docs = [p \in POs |-> 0]
  /\ qc_gate = FALSE
  /\ last = Call("none")
  /\ req = NoRequest
  /\ other = NoOther

NextLegacy ==
  \/ submit_for_qc /\ UNCHANGED aside
  \/ qc_approve_batch(NoText) /\ UNCHANGED aside
  \/ \E failing \in SUBSET {1} : \E auth \in Auths :
       create_step5_post(failing, 0, auth) /\ UNCHANGED aside
  \/ \E failing \in SUBSET {1} : \E auth \in Auths :
       retry_posting(failing, 0, auth) /\ UNCHANGED aside

SpecLegacy == InitLegacy /\ [][NextLegacy]_vars

----------------------------------------------------------------------------
\* Access: the batch of one user, on which the owner and other logged-in
\* users send the requests of the workflow.  Each handler is preceded by the
\* checks of current_user it makes, if it makes any.

\* current_user as the handlers look at it: whether it is the user of the
\* batch, its permissions and its role.
User(owner, multiple_grn, qc_dashboard, role) ==
  [owner |-> owner, multiple_grn |-> multiple_grn, qc_dashboard |-> qc_dashboard,
   role |-> role]

\* The owner, with and without the QC permission and without the permission
\* of the module; users that do not own the batch: one of role user, one
\* with the QC permission, one of role qc, a manager.
Callers ==
  {User(TRUE, TRUE, FALSE, "user"), User(TRUE, TRUE, TRUE, "user"),
   User(TRUE, FALSE, FALSE, "user"),
   User(FALSE, TRUE, FALSE, "user"), User(FALSE, TRUE, TRUE, "user"),
   User(FALSE, FALSE, FALSE, "qc"), User(FALSE, TRUE, FALSE, "manager")}

\* "if batch.user_id != current_user.id".
NotOwner(caller) == ~caller.owner

\* "if not current_user.has_permission('multiple_grn')", followed in
\* delete_batch by the check of the owner.
NoModule(caller) == ~caller.multiple_grn
DeleteDenied(caller) == NoModule(caller) \/ NotOwner(caller)

\* The check of qc_approve_batch and qc_reject_batch.
NoQC(caller) == ~caller.qc_dashboard /\ caller.role \notin {"admin", "qc"}

\* The check of retry_posting.
NoRetry(caller) == ~caller.qc_dashboard /\ caller.role \notin {"admin", "qc", "manager"}

\* update_line_item, add_manual_item and the manage_*_details handlers are
\* behind login_required alone.
LoginOnly(caller) == FALSE

\* The answer 403 'Access denied' (or the redirect with that flash).
AccessDenied == [Call("denied") EXCEPT !.ok = FALSE, !.success = FALSE]

\* A handler behind its check of current_user.
Checked(denied, handler) ==
  IF denied
    THEN /\ last' = AccessDenied
         /\ UNCHANGED <<batch, po_links, sap_docs, qc_gate>>
    ELSE handler

NextAccess ==
  \/ \E caller \in {c \in Callers : c.owner} :
       Checked(NoModule(caller), create_step1_customer(TRUE)) /\ Serve("create", caller)
  \/ \E caller \in Callers :
       Checked(DeleteDenied(caller), delete_batch) /\ Serve("delete", caller)
  \/ \E caller \in Callers :
       Checked(NotOwner(caller), create_step2_select_pos(<<1>>)) /\ Serve("select_pos", caller)
  \/ \E caller \in Callers :
       Checked(NotOwner(caller), add_item_to_batch(1, TRUE, "WH", PlainItem))
         /\ Serve("add_item", caller)
  \/ \E caller \in Callers :
       Checked(LoginOnly(caller), add_manual_item(1, TRUE, PlainItem))
         /\ Serve("add_manual_item", caller)
  \/ \E caller \in Callers :
       Checked(LoginOnly(caller), update_line_item(1, 1, 40, 0))
         /\ Serve("update_line_item", caller)
  \/ \E caller \in Callers :
       Checked(LoginOnly(caller), manage_batch_details(1, 1, 60))
         /\ Serve("batch_details", caller)
  \/ \E caller \in Callers :
       Checked(NotOwner(caller), submit_for_qc) /\ Serve("submit", caller)
  \/ \E caller \in Callers :
       Checked(NoQC(caller), qc_approve_batch(NoText)) /\ Serve("qc_approve", caller)
  \/ \E caller \in Callers :
       Checked(NoQC(caller), qc_reject_batch("note")) /\ Serve("qc_reject", caller)
  \/ \E caller \in Callers :
       Checked(NotOwner(caller), reset_batch_for_resubmission) /\ Serve("reset", caller)
  \/ \E caller \in Callers : \E failing \in SUBSET {1} :
       Checked(NotOwner(caller), create_step5_post(failing, 0, Authorised))
         /\ Serve("post", caller)
  \/ \E caller \in Callers : \E failing \in SUBSET {1} :
       Checked(NoRetry(caller), retry_posting(failing, 0, Authorised))
         /\ Serve("retry", caller)

SpecAccess == Init /\ [][NextAccess]_vars

----------------------------------------------------------------------------
\* Concurrent posting: two requests (post or retry_posting) served at the
\* same time on one approved batch.  Each has its own database session: it
\* loads the batch and its PO links once, sends its document-creation
\* requests link by link and commits at its end.  req holds the requests in
\* flight.  The endpoint accepts every document or refuses those of the
\* first purchase order.

Procs == {1, 2}

\* No request of this worker is in flight.
Idle == [op |-> "none"]

\* The approved batch of n PO links with one line each, as
\* create_step1_customer, create_step2_select_pos, add_item_to_batch,
\* submit_for_qc and qc_approve_batch leave it.
RaceBatch(n) ==
  Approved([NewBatch EXCEPT !.total_pos = n, !.status = "pending_qc",
                            !.submitted_at = TRUE], NoText)
RaceLinks(n) ==
  SetLinesQC([i \in 1..n |->
                [NewPOLink(i) EXCEPT !.line_selections =
                   <<AddItemSession("WH", PlainItem).line>>]], "approved")

InitRace ==
  /\ \E n \in 1..2 : batch = RaceBatch(n) /\ po_links = RaceLinks(n)
  /\ sap_docs = [p \in POs |-> 0]
  /\ qc_gate = TRUE
  /\ last = Call("qc_approve")
  /\ req = [p \in Procs |-> Idle]
  /\ other = NoOther

\* Mutant: the row is read again from the table before it is looked at.
Seen_Stored(loaded, stored) == stored

\* What a session sees of rows it has loaded: the objects of its identity
\* map, which no statement of the handlers refreshes.
Seen(loaded, stored) == loaded

\* The row an UPDATE of the commit leaves: the columns whose value the
\* session changed are written over the stored ones, the others are left.
Written(stored, loaded, changed) ==
  [f \in DOMAIN stored |-> IF changed[f] # loaded[f] THEN changed[f] ELSE stored[f]]

\* The guards of the handler and the loading of batch.po_links.
Begin(p, op) ==
  /\ req[p] = Idle
  /\ IF (op = "post" /\ PostAllowed(batch)) \/ (op = "retry" /\ RetryAllowed(batch, po_links))
       THEN /\ req' = [req EXCEPT ![p] =
                         [op |-> op, i |-> 1, batch |-> batch, links |-> po_links,
                          retried |-> FailedLinks(po_links),
                          acc |-> LoopStart(po_links, sap_docs, Authorised)]]
            /\ UNCHANGED last
       ELSE /\ UNCHANGED req
            /\ last' = Refused
  /\ UNCHANGED <<batch, po_links, sap_docs, qc_gate>>

\* One round of the loop over the PO links: the link as the session sees
\* it, and the endpoint with the documents it holds now.
Step(p, failing) ==
  /\ req[p] # Idle
  /\ req[p].i <= Len(req[p].acc.links)
  /\ LET r == req[p]
         acc == [r.acc EXCEPT !.links = Seen(r.acc.links, po_links), !.docs = sap_docs]
         after == IF r.op = "post" THEN PostStep(acc, r.i, failing, 0)
                  ELSE IF r.i \in r.retried THEN RetryStep(acc, r.i, failing, 0)
                  ELSE acc
     IN /\ \A po \in POs : after.docs[po] <= MaxDocs
        /\ sap_docs' = after.docs
        /\ req' = [req EXCEPT ![p].acc = after, ![p].i = @ + 1]
  /\ UNCHANGED <<batch, po_links, qc_gate, last>>

\* "Update batch status" and db.session.commit() of the handler.
Finish(p) ==
  /\ req[p] # Idle
  /\ req[p].i > Len(req[p].acc.links)
  /\ LET r == req[p]
         changed == IF r.op = "post"
                      THEN BatchAfterPost(r.batch, r.acc.success_count, r.acc.results)
                      ELSE BatchAfterRetry(r.batch, r.acc.links, r.acc.success_count,
                                           Cardinality(r.retried))
     IN /\ batch' = Written(batch, r.batch, changed)
        /\ po_links' = [k \in 1..Len(po_links) |->
                          Written(po_links[k], r.links[k], r.acc.links[k])]
        /\ last' = [Call(r.op) EXCEPT !.sent = r.acc.sent,
                                      !.documents = r.acc.documents,
                                      !.requests = r.acc.requests,
                                      !.success = r.acc.success_count > 0,
                                      !.total_success = r.acc.success_count]
  /\ req' = [req EXCEPT ![p] = Idle]
  /\ UNCHANGED <<sap_docs, qc_gate>>

NextRace ==
  \/ \E p \in Procs : Begin(p, "post") /\ UNCHANGED other
  \/ \E p \in Procs : Begin(p, "retry") /\ UNCHANGED other
  \/ \E p \in Procs : \E failing \in SUBSET {1} : Step(p, failing) /\ UNCHANGED other
  \/ \E p \in Procs : Finish(p) /\ UNCHANGED other

SpecRace == InitRace /\ [][NextRace]_vars

----------------------------------------------------------------------------
\* The stored rows of the batch and the documents SAP holds.
db == <<batch, po_links, sap_docs>>

\* The behaviours of the endpoint and of a handler, for any batch.
Behaviours == (SUBSET POs) \X (0..MaxPOs)

\* C1: over any sequence of post and retry_posting calls, a PO link that is
\* marked posted or carries a document entry when a call starts is skipped by
\* that call: no document-creation request is sent for it, its row is left as
\* it is, and post counts it as a success (success_count is the number of
\* such links plus the number of links the call posted).
C1_PostedLinkSkipped ==
  [][last'.op \in {"post", "retry"} =>
       LET done == {i \in 1..Len(po_links) :
                      po_links[i].status = "posted" \/ po_links[i].sap_grn_doc_entry # 0}
       IN /\ last'.sent \cap done = {}
          /\ \A i \in done : po_links'[i] = po_links[i]
          /\ (last'.op = "post" /\ ~last'.raised) =>
               last'.total_success =
                 Cardinality(done)
                   + Cardinality({i \in last'.sent : po_links'[i].status = "posted"})]_vars

\* A posting that sent requests and skipped a link posted before it.
C1_Witness ==
  /\ last.op = "post"
  /\ last.sent # {}
  /\ \E i \in 1..Len(po_links) : i \notin last.sent /\ po_links[i].status = "posted"

\* C2: post is idempotent: a post that follows a post, with nothing in between
\* and the same behaviour of the endpoint, leaves the batch, the PO links
\* (statuses, document numbers) and SAP's documents as the first call left
\* them.
C2_PostIdempotent ==
  [][(last.op = "post" /\ create_step5_post(last.failing, last.fault, Authorised)) =>
       /\ batch'.status = batch.status
       /\ batch'.total_grns_created = batch.total_grns_created
       /\ po_links' = po_links
       /\ sap_docs' = sap_docs]_vars

\* A repeated post that found links to skip and links to attempt again.
C2_Witness ==
  /\ last.op = "post"
  /\ last.again
  /\ last.sent # {}
  /\ \E i \in 1..Len(po_links) : i \notin last.sent /\ po_links[i].status = "posted"

\* C3: partial-failure isolation: after post returns without a system
\* exception, every PO link that has a line selection is posted (document
\* number and entry recorded, error cleared) or failed (error stored); with
\* three links of which the endpoint refuses only the second, links 1 and 3
\* are posted, link 2 is failed and the batch stays qc_approved.
C3_PartialFailureIsolation ==
  (last.op = "post" /\ ~last.raised) =>
    /\ \A i \in 1..Len(po_links) :
         po_links[i].line_selections # <<>> =>
           \/ /\ po_links[i].status = "posted"
              /\ po_links[i].sap_grn_doc_entry # 0
              /\ po_links[i].sap_grn_doc_num # 0
              /\ po_links[i].error_message = ""
           \/ /\ po_links[i].status = "failed"
              /\ po_links[i].error_message # ""
    /\ (Len(po_links) = 3 /\ last.sent = {1, 2, 3} /\ last.failing = {2}) =>
         /\ po_links[1].status = "posted"
         /\ po_links[2].status = "failed"
         /\ po_links[3].status = "posted"
         /\ batch.status = "qc_approved"

\* The post of three links of which only the second failed.
C3_Witness ==
  /\ last.op = "post" /\ ~last.raised
  /\ Len(po_links) = 3 /\ last.sent = {1, 2, 3} /\ last.failing = {2}
  /\ po_links[2].status = "failed" /\ po_links[3].status = "posted"

C5_CompletedAllPosted ==
  batch.status = "completed" =>
    \A i \in 1..Len(po_links) : po_links[i].status = "posted"

\* C6: retry_posting is refused, with no stored row changed and no request
\* sent, unless the batch is qc_approved and has a failed PO link; an accepted
\* retry sends requests only for links that were failed when it started.
C6_RetryGuard ==
  [][\A bh \in Behaviours :
       retry_posting(bh[1], bh[2], Authorised) =>
         LET failed == {i \in 1..Len(po_links) : po_links[i].status = "failed"} IN
         IF batch.status = "qc_approved" /\ failed # {}
           THEN last'.op = "retry" /\ last'.sent \subseteq failed
           ELSE ~last'.ok /\ last'.sent = {} /\ db' = db]_vars

\* An accepted retry that sent a request and left other links alone.
C6_Witness ==
  /\ last.op = "retry"
  /\ last.sent # {}
  /\ Cardinality(last.sent) < Len(po_links)

\* C7: after retry_posting the batch is completed exactly when every PO link
\* of the batch, retried or not, is posted, and then total_grns_created is the
\* number of links; for the batch of three links of which only the second
\* had failed, a retry in which it succeeds completes the batch with
\* total_grns_created = 3.
C7_RetryConvergence ==
  last.op = "retry" =>
    /\ batch.status = "completed" <=>
         \A i \in 1..Len(po_links) : po_links[i].status = "posted"
    /\ batch.status = "completed" => batch.total_grns_created = Len(po_links)
    /\ (Len(po_links) = 3 /\ last.sent = {2} /\ last.failing = {} /\ ~last.raised
          /\ po_links[1].status = "posted" /\ po_links[3].status = "posted") =>
         batch.status = "completed" /\ batch.total_grns_created = 3

\* The retry of the second of three links, which completes the batch.
C7_Witness ==
  /\ last.op = "retry" /\ ~last.raised
  /\ Len(po_links) = 3 /\ last.sent = {2} /\ last.failing = {}
  /\ batch.status = "completed" /\ batch.total_grns_created = 3

\* C8: when an exception leaves post, the batch is qc_approved with an
\* error_log that notes the system error and the answer carries allow_retry,
\* and post is accepted again; when an exception leaves retry_posting, retry
\* is accepted again.
C8_SystemErrorKeepsRetryable ==
  /\ (last.op = "post" /\ last.raised) =>
       /\ batch.status = "qc_approved"
       /\ batch.error_log = <<"system error">>
       /\ last.allow_retry
       /\ batch.qc_status = "approved"
  /\ (last.op = "retry" /\ last.raised) =>
       /\ batch.status = "qc_approved"
       /\ \E i \in 1..Len(po_links) : po_links[i].status = "failed"

\* A post that an exception left after it had posted a link.
C8_Witness ==
  /\ last.op = "post" /\ last.raised
  /\ \E i \in last.sent : po_links[i].status = "posted"

\* C9: QC gate: a call sends document-creation requests only when the batch
\* was approved by QC with no rejection or reset since, and post on a batch
\* whose qc_status is not approved is refused without a request and without
\* a change of a stored row.
C9_QCGate ==
  [][/\ last'.sent # {} => qc_gate
     /\ batch.qc_status # "approved" =>
          \A bh \in Behaviours :
            create_step5_post(bh[1], bh[2], Authorised) =>
              ~last'.ok /\ last'.sent = {} /\ db' = db]_vars

\* A post that sent requests for an approved batch.
C9_Witness == last.op = "post" /\ last.sent # {} /\ qc_gate

\* C10: every change of the status of a batch is an edge of the state
\* machine, made by the operation of that edge from the source status of the
\* edge, and the status of a completed batch never changes.
C10_StatusEdges ==
  [][/\ (batch.status # "absent" /\ batch'.status # "absent"
        /\ batch'.status # batch.status) =>
       <<batch.status, last'.op, batch'.status>> \in
         {<<"draft", "submit", "pending_qc">>,
          <<"pending_qc", "qc_approve", "qc_approved">>,
          <<"pending_qc", "qc_reject", "qc_rejected">>,
          <<"qc_rejected", "reset", "draft">>,
          <<"qc_approved", "post", "completed">>,
          <<"qc_approved", "retry", "completed">>}
     /\ last'.op = "submit" => batch.status = "draft"
     /\ last'.op \in {"qc_approve", "qc_reject"} => batch.status = "pending_qc"
     /\ last'.op = "reset" => batch.status = "qc_rejected"
     /\ last'.op \in {"post", "retry"} => batch.status = "qc_approved"
     /\ batch.status = "completed" => batch'.status = "completed"]_vars

\* A batch that a retry completed.
C10_Witness == batch.status = "completed" /\ last.op = "retry"

----------------------------------------------------------------------------
\* Every line selection of the batch, by the position of its link and its own.
Lines(links) ==
  {<<i, j>> \in (1..Len(links)) \X (1..MaxLines) : j <= Len(links[i].line_selections)}

\* C11: qc_approve on a batch whose status is not pending_qc is refused and
\* leaves the batch (its status and qc_status among its columns) and every
\* line selection (its qc_status among its columns) as they were.
C11_ApproveGuard ==
  [][(req'.op = "qc_approve" /\ batch.status # "pending_qc") =>
       /\ ~last'.ok
       /\ batch' = batch
       /\ po_links' = po_links]_vars

\* A refused approval of a draft batch that holds a line.
C11_Witness ==
  /\ req.op = "qc_approve" /\ ~last.ok
  /\ batch.status = "draft" /\ batch.qc_status = "pending"
  /\ \E ij \in Lines(po_links) : po_links[ij[1]].line_selections[ij[2]].qc_status = "pending"

\* C12: submit_for_qc is accepted only if every line selection of every PO
\* link is complete and has a warehouse code; accepted, it leaves the batch
\* pending_qc with submitted_at set; refused, it leaves the batch and its
\* rows as they were.
C12_SubmitNeedsCompleteLines ==
  [][req'.op = "submit" =>
       IF last'.ok
         THEN /\ \A ij \in Lines(po_links) :
                   /\ po_links[ij[1]].line_selections[ij[2]].is_complete
                   /\ po_links[ij[1]].line_selections[ij[2]].warehouse_code # NoText
              /\ batch'.status = "pending_qc"
              /\ batch'.submitted_at
         ELSE batch' = batch /\ po_links' = po_links]_vars

\* An accepted submission of a batch with two lines.
C12_Witness ==
  /\ req.op = "submit" /\ last.ok
  /\ batch.status = "pending_qc"
  /\ Cardinality(Lines(po_links)) = 2

\* The rows of the end-to-end example: one PO link with the one line that
\* create_step3_select_lines stored for quantity 100, holding the batch rows
\* of 60 and 40.
EndToEndRows ==
  /\ Len(po_links) = 1
  /\ Len(po_links[1].line_selections) = 1
  /\ po_links[1].line_selections[1].po_line_num = 0
  /\ po_links[1].line_selections[1].selected_quantity = 100
  /\ po_links[1].line_selections[1].batch_details = <<60, 40>>

\* C13: the end-to-end run: with the rows of the example stored by create,
\* select PO, select line and the entry of the two batch rows, submit_for_qc
\* is accepted for the draft batch, qc_approve for the submitted one, and the
\* posting of the approved batch, accepted by the endpoint, ends with the
\* batch completed and exactly one document in SAP.
C13_EndToEnd ==
  [][EndToEndRows =>
       /\ (req'.op = "submit" /\ batch.status = "draft") => last'.ok
       /\ (req'.op = "qc_approve" /\ batch.status = "pending_qc") => last'.ok
       /\ (req'.op = "post" /\ batch.status = "qc_approved") =>
            /\ batch'.status = "completed"
            /\ sap_docs'[1] = 1
            /\ \A p \in POs \ {1} : sap_docs'[p] = 0]_vars

\* Whether every line selection of the links has this qc_status.
AllLinesQC(links, st) ==
  \A ij \in Lines(links) : links[ij[1]].line_selections[ij[2]].qc_status = st

\* C14: an accepted qc_approve leaves the batch and every line selection of
\* every PO link with qc_status approved, an accepted qc_reject with
\* qc_status rejected; qc_reject without notes is refused and changes no row.
C14_QCCascade ==
  [][/\ (req'.op = "qc_approve" /\ last'.ok) =>
          batch'.qc_status = "approved" /\ AllLinesQC(po_links', "approved")
     /\ (req'.op = "qc_reject" /\ last'.ok) =>
          batch'.qc_status = "rejected" /\ AllLinesQC(po_links', "rejected")
     /\ (req'.op = "qc_reject" /\ req'.arg = NoText) =>
          ~last'.ok /\ batch' = batch /\ po_links' = po_links]_vars

\* A rejection of a batch with lines under both of its PO links.
C14_Witness ==
  /\ req.op = "qc_reject" /\ last.ok
  /\ Len(po_links) = 2
  /\ \A i \in 1..2 : po_links[i].line_selections # <<>>
  /\ batch.qc_status = "rejected"

\* C15: reset_for_resubmission is accepted only for a qc_rejected batch;
\* accepted, it changes of the batch only status (draft), qc_status
\* (pending), qc_notes and submitted_at (cleared), and of the rows below it
\* only the qc_status of every line selection (pending): PO links,
\* quantities and detail rows stay; refused, it changes nothing.
C15_ResetFrame ==
  [][req'.op = "reset" =>
       IF last'.ok
         THEN /\ batch.status = "qc_rejected"
              /\ batch' = [batch EXCEPT !.status = "draft", !.qc_status = "pending",
                                         !.qc_notes = NoText, !.submitted_at = FALSE]
              /\ Len(po_links') = Len(po_links)
              /\ \A i \in 1..Len(po_links) :
                   /\ [po_links'[i] EXCEPT !.line_selections = <<>>]
                        = [po_links[i] EXCEPT !.line_selections = <<>>]
                   /\ Len(po_links'[i].line_selections) = Len(po_links[i].line_selections)
                   /\ \A j \in 1..Len(po_links[i].line_selections) :
                        po_links'[i].line_selections[j] =
                          [po_links[i].line_selections[j] EXCEPT !.qc_status = "pending"]
         ELSE batch.status # "qc_rejected" /\ batch' = batch /\ po_links' = po_links]_vars

\* A reset of a rejected batch whose first line holds detail rows.
C15_Witness ==
  /\ req.op = "reset" /\ last.ok
  /\ batch.status = "draft" /\ batch.qc_notes = NoText /\ ~batch.submitted_at
  /\ HasLine(1, 1)
  /\ po_links[1].line_selections[1].batch_details = <<60, 40>>
  /\ po_links[1].line_selections[1].serial_details = 1

\* C16: delete_batch removes the batch only while it is a draft; for any
\* other status the request is refused and the batch and the rows it owns
\* stay as they are.
C16_DeleteOnlyDraft ==
  [][req'.op = "delete" =>
       /\ last'.ok => batch.status = "draft" /\ batch'.status = "absent"
       /\ batch.status # "draft" =>
            ~last'.ok /\ batch' = batch /\ po_links' = po_links]_vars

\* A refused deletion of a submitted batch that owns lines.
C16_Witness ==
  /\ req.op = "delete" /\ ~last.ok /\ req.arg = "lines"
  /\ batch.status = "pending_qc"

\* The rows of the tables that belong to one batch, each with the batch it
\* belongs to through its foreign keys.
RowsOf(id, status, links) ==
  {<<"multi_grn_batches", id, <<>>, status>> : x \in {y \in {1} : status # "absent"}}
  \cup {<<"multi_grn_po_links", id, <<i>>, links[i].po_doc_num>> : i \in 1..Len(links)}
  \cup {<<"multi_grn_line_selections", id, <<ij[1], ij[2]>>,
          links[ij[1]].line_selections[ij[2]].selected_quantity>> : ij \in Lines(links)}
  \cup UNION {{<<"multi_grn_batch_details", id, <<ij[1], ij[2], k>>,
                  links[ij[1]].line_selections[ij[2]].batch_details[k]>> :
                 k \in 1..Len(links[ij[1]].line_selections[ij[2]].batch_details)} :
               ij \in Lines(links)}
  \cup UNION {{<<"multi_grn_serial_details", id, <<ij[1], ij[2], k>>, 1>> :
                 k \in 1..links[ij[1]].line_selections[ij[2]].serial_details} :
               ij \in Lines(links)}
  \cup UNION {{<<"multi_grn_non_managed_details", id, <<ij[1], ij[2], k>>, 1>> :
                 k \in 1..Len(links[ij[1]].line_selections[ij[2]].non_managed_details)} :
               ij \in Lines(links)}

\* All rows of the six tables.
Tables == RowsOf(1, batch.status, po_links) \cup RowsOf(2, other.status, other.po_links)

\* C17: an accepted delete_batch removes the row of the batch and every PO
\* link, line selection and batch, serial and non-managed detail row that
\* belongs to it, and removes or changes no row of another batch.
C17_DeleteCascade ==
  [][(req'.op = "delete" /\ last'.ok) =>
       Tables' = {row \in Tables : row[2] # 1}]_vars

\* A deletion of a batch that owned rows of every table, beside another
\* batch that owns rows of every table.
C17_Witness ==
  /\ req.op = "delete" /\ last.ok /\ req.arg = "details"
  /\ \A t \in {"multi_grn_batches", "multi_grn_po_links", "multi_grn_line_selections",
                 "multi_grn_batch_details", "multi_grn_serial_details",
                 "multi_grn_non_managed_details"} :
       \E row \in Tables : row[1] = t /\ row[2] = 2

\* The purchase orders a selection names.
Selected(sel) == {sel[k] : k \in 1..Len(sel)}

C19_TotalPOs == Exists => batch.total_pos = Len(po_links)

\* A batch with two PO links counted.
C19_Witness == Exists /\ batch.total_pos = 2 /\ req.op = "select_pos" /\ req.arg = NoText

\* C20: a PO link never holds two line selections with the same source line
\* number and item code, whatever line-adding requests were served.
C20_OneLinePerKey ==
  \A i \in 1..Len(po_links) :
    \A j, k \in 1..Len(po_links[i].line_selections) :
      (/\ po_links[i].line_selections[j].po_line_num = po_links[i].line_selections[k].po_line_num
       /\ po_links[i].line_selections[j].item_code = po_links[i].line_selections[k].item_code)
        => j = k

----------------------------------------------------------------------------
\* A line selection of the batch.
LineAt(ij) == po_links[ij[1]].line_selections[ij[2]]

\* C21: every line selection that has rows of multi_grn_batch_details has
\* rows whose quantities sum to its selected_quantity (the quantities of the
\* model are whole, so that within 0.001 is equality): no request that would
\* leave another sum is accepted.
C21_BatchRowsSum ==
  \A ij \in Lines(po_links) :
    LineAt(ij).batch_details # <<>> =>
      Sum(LineAt(ij).batch_details) = LineAt(ij).selected_quantity

\* Whether the item of a line is serial-managed, by the columns that keep
\* what SAP reported.
SerialManaged(line) == line.manage_method = "S" \/ line.inventory_type = "serial"

\* The serial entries of a line: its rows of multi_grn_serial_details, or,
\* when it has none, the entries of its serial_numbers.
SerialEntries(line) ==
  IF line.serial_details > 0 THEN line.serial_details ELSE Len(line.serial_numbers)

\* C22: every serial-managed line selection has as many serial entries as
\* its selected_quantity has units.
C22_SerialCount ==
  \A ij \in Lines(po_links) :
    SerialManaged(LineAt(ij)) => SerialEntries(LineAt(ij)) = LineAt(ij).selected_quantity

\* The line a request appended to the first PO link.
Added == po_links'[1].line_selections[Len(po_links'[1].line_selections)]

\* C23: add_item_to_batch for a non-managed item in N packs is accepted only
\* if N >= 1 and N divides the quantity, and then stores exactly N rows of
\* multi_grn_non_managed_details, with pack numbers 1..N and the quantity
\* divided by N each; otherwise it stores nothing.
C23_NonManagedPacks ==
  [][(req'.op = "add_item" /\ req'.arg.mode = "N") =>
       LET n == req'.arg.number_of_bags
           total == req'.arg.quantity
       IN IF last'.ok
            THEN /\ n >= 1 /\ total % n = 0
                 /\ Added.non_managed_details =
                      [k \in 1..n |-> [pack_number |-> k, quantity |-> Milli(total) \div n]]
            ELSE po_links' = po_links]_vars

\* What SAP reported about the item of a line.
Classification(line) ==
  IF line.manage_method # "N" THEN line.manage_method
  ELSE IF line.inventory_type = "batch" THEN "B"
  ELSE IF line.inventory_type = "serial" THEN "S"
  ELSE "N"

\* The detail tables in which a line owns rows.
Subtypes(line) ==
  {t \in {"B"} : line.batch_details # <<>>}
    \cup {t \in {"S"} : line.serial_details > 0}
    \cup {t \in {"N"} : line.non_managed_details # <<>>}

\* C24: a line selection owns detail rows of one table at most, the table of
\* the management that SAP reported for its item.
C24_OneSubtype ==
  \A ij \in Lines(po_links) : Subtypes(LineAt(ij)) \subseteq {Classification(LineAt(ij))}

\* The batch entries of a form that the validation of add_item_to_batch
\* refuses for their quantities.
DetailQuantityFailure(item) ==
  /\ item.mode = "B" /\ item.batch_numbers # <<>>
  /\ \/ Sum(item.batch_numbers) # item.quantity
     \/ /\ item.number_of_bags > 1
        /\ \E k \in 1..Len(item.batch_numbers) : item.batch_numbers[k] % item.number_of_bags # 0

\* C25: add_item_to_batch with batch entries whose quantities the validation
\* refuses is rejected and leaves the stored rows as they were before the
\* call: neither the flushed line selection nor a detail row stays.
C25_RejectedAddItemRollsBack ==
  [][(req'.op = "add_item" /\ DetailQuantityFailure(req'.arg)) =>
       ~last'.ok /\ po_links' = po_links /\ batch' = batch]_vars

\* A form refused at its second batch entry, after the line was flushed and
\* the row of the first entry added, with nothing stored under the link.
C25_Witness ==
  /\ req.op = "add_item" /\ ~last.ok
  /\ req.arg.mode = "B" /\ req.arg.batch_numbers = <<60, 40>>
  /\ req.arg.number_of_bags = MaxBags
  /\ Len(po_links) = 1 /\ po_links[1].line_selections = <<>>

\* The kinds of entries a body of add_manual_item supplies.
Supplied(item) ==
  {t \in {"B"} : item.batch_numbers # <<>>} \cup {t \in {"S"} : item.serial_numbers > 0}

\* Whether the mode the caller declares by its entries is the one SAP
\* reports: no entries for an item that is not managed, entries of the
\* reported kind otherwise.
DeclaredMatches(item) ==
  IF item.mode = "N" THEN Supplied(item) = {} ELSE item.mode \in Supplied(item)

\* C26: add_manual_item refuses a body whose declared management mode is not
\* the one SAP reports, storing nothing; a line it stores carries the
\* classification SAP reports.
C26_ManualItemModeChecked ==
  [][req'.op = "add_manual_item" =>
       /\ ~DeclaredMatches(req'.arg) => ~last'.ok /\ po_links' = po_links
       /\ last'.ok => Added.inventory_type = InventoryType(req'.arg.mode)]_vars

\* The documents the last request sent to PurchaseDeliveryNotes.
SentDocuments ==
  {last.documents[k].grn_data : k \in {n \in 1..Len(last.documents) :
                                         last.requests[last.documents[n].link] > 0}}

\* C27: in every document sent, each entry of BatchNumbers and of
\* SerialNumbers carries as BaseLineNumber the zero-based position of its
\* line in DocumentLines, and each entry of SerialNumbers has quantity 1.
C27_EntriesNameTheirLine ==
  \A grn_data \in SentDocuments : \A n \in 1..Len(grn_data.DocumentLines) :
    LET doc_line == grn_data.DocumentLines[n] IN
    /\ \A k \in 1..Len(doc_line.BatchNumbers) :
         doc_line.BatchNumbers[k].BaseLineNumber = n - 1
    /\ \A k \in 1..Len(doc_line.SerialNumbers) :
         /\ doc_line.SerialNumbers[k].BaseLineNumber = n - 1
         /\ doc_line.SerialNumbers[k].Quantity = 1

C29_RetryBuildsPostDocument ==
  last.op = "retry" =>
    \A k \in 1..Len(last.documents) :
      LET grn_data == last.documents[k].grn_data
          posted == PostDocument(po_links[last.documents[k].link])
      IN /\ grn_data.DocumentLines = posted.DocumentLines
         /\ grn_data.CardCode = posted.CardCode
         /\ grn_data.NumAtCard = posted.NumAtCard

\* C29 witness: a retry sent a document whose second line carries batch
\* entries.
C29_Witness ==
  /\ last.op = "retry"
  /\ \E grn_data \in SentDocuments :
       /\ Len(grn_data.DocumentLines) >= 2
       /\ grn_data.DocumentLines[2].BatchNumbers # <<>>

Posting(l) ==
  [status |-> l.status, sap_grn_doc_num |-> l.sap_grn_doc_num,
   error_message |-> l.error_message]

\* The PO links a handler's loop leaves when the endpoint refuses the
\* documents of the purchase orders in failing.
LinksAfter(op, failing, fault) ==
  IF op = "post"
    THEN PostLoop(LoopStart(po_links, sap_docs, Authorised), 1, failing, fault).links
    ELSE RetryLoop(LoopStart(po_links, sap_docs, Authorised), 1, FailedLinks(po_links),
                   failing, fault).links

\* C31: when the endpoint refuses the document of one PO link (a rejection
\* or a connectivity failure), the call sends one request for that link and
\* stores it as failed with the error and without a document number, and
\* every other PO link of the batch is left as the same call leaves it when
\* the endpoint accepts that document.
C31_RejectionStaysOnItsLink ==
  [][(/\ last'.op \in {"post", "retry"}
      /\ ~(last'.op = "retry" /\ last'.raised)) =>
       \A i \in last'.sent :
         po_links[i].po_doc_num \in last'.failing =>
           /\ po_links'[i].status = "failed"
           /\ po_links'[i].error_message # NoText
           /\ po_links'[i].sap_grn_doc_num = NoNumber
           /\ last'.requests[i] = 1
           /\ \A j \in (1..Len(po_links)) \ {i} :
                Posting(po_links'[j]) =
                  Posting(LinksAfter(last'.op, last'.failing \ {po_links[i].po_doc_num},
                                     last'.fault)[j])]_vars

\* C31 witness: a post of two links or more of which the endpoint refused
\* one and accepted a later one.
C31_Witness ==
  /\ last.op = "post"
  /\ \E i \in last.sent : \E j \in last.sent :
       /\ i < j
       /\ po_links[i].po_doc_num \in last.failing
       /\ po_links[i].status = "failed"
       /\ po_links[j].status = "posted"

\* The operations of the owner and those of QC.
OwnerOperations ==
  {"select_pos", "add_item", "add_manual_item", "update_line_item", "batch_details",
   "submit", "reset", "post", "delete"}
QCOperations == {"qc_approve", "qc_reject", "retry"}

\* Whether the user of a request is not authorized for its operation: not
\* the owner for an operation of the owner; for an operation of QC, without
\* the QC permission and without a role that stands for it (for a retry,
\* the role of a manager as well).
Unauthorized(request) ==
  \/ request.op \in OwnerOperations /\ ~request.arg.owner
  \/ /\ request.op \in QCOperations
     /\ ~request.arg.qc_dashboard
     /\ request.arg.role \notin {"admin", "qc"}
     /\ ~(request.op = "retry" /\ request.arg.role = "manager")

\* Whether the batch, the PO link or the line selection that a request
\* names is stored.
Addressed(request) ==
  /\ Exists
  /\ request.op = "add_manual_item" => Len(po_links) >= 1
  /\ request.op \in {"update_line_item", "batch_details"} => HasLine(1, 1)

\* C32: a request of a user that is not authorized for its operation, on a
\* batch, PO link or line selection that is stored, is answered with Access
\* denied and changes no row of the batch, of its PO links, of their line
\* selections or of their detail rows.
C32_UnauthorizedDenied ==
  [][(Addressed(req') /\ Unauthorized(req')) =>
       (last' = AccessDenied /\ UNCHANGED db)]_vars

\* The PO link that worker p handled in a step, 0 when it handled none.
Handled(p) ==
  IF req[p] # Idle /\ req'[p] # Idle /\ req'[p].i = req[p].i + 1
       /\ (req[p].op = "retry" => req[p].i \in req[p].retried)
    THEN req[p].i ELSE 0

\* C33: no lock and no guarded write stands between two requests on one
\* batch: a post or a retry sends the document-creation request for every
\* PO link that its own session read as not posted and with lines, whatever
\* the table holds for that link by then, so that two requests in flight can
\* each send one for the same link.
C33_SentOnOwnReading ==
  [][\A p \in Procs :
       LET i == Handled(p) IN
       (/\ i # 0
        /\ ~AlreadyPosted(req[p].acc.links[i])
        /\ req[p].acc.links[i].line_selections # <<>>)
         => i \in req'[p].acc.sent]_vars

\* C33 witness: the two requests in flight have both sent a
\* document-creation request for the same PO link, and the endpoint holds
\* two documents for its purchase order.
C33_Witness ==
  /\ req[1] # Idle /\ req[2] # Idle
  /\ \E i \in req[1].acc.sent \cap req[2].acc.sent :
       sap_docs[po_links[i].po_doc_num] = 2

\* The approved batch of two PO links that the races start from.
C33_StartReached ==
  batch = RaceBatch(2) /\ po_links = RaceLinks(2) /\ qc_gate

\* C34: over any sequential run of post and retry_posting calls, also when
\* an exception ends a call after the endpoint accepted documents, the
\* endpoint holds at most one document for the purchase order of a PO link.
C34_OneDocumentPerLink ==
  \A i \in 1..Len(po_links) : sap_docs[po_links[i].po_doc_num] <= 1

\* What was entered for the batch: its PO links and their line selections
\* with their quantities, warehouses, bins and detail rows, without the QC
\* status of the lines and the posting fields of the links.
Entered(links) ==
  [i \in 1..Len(links) |->
     [po_doc_num |-> links[i].po_doc_num,
      line_selections |-> [j \in 1..Len(links[i].line_selections) |->
                             [links[i].line_selections[j] EXCEPT !.qc_status = NoText]]]]

\* C35: while the batch is pending_qc, qc_approved or completed, no request
\* adds a PO link or a line selection or changes the quantity, the
\* warehouse, the bin or the detail rows of a line selection.
C35_FrozenAfterSubmit ==
  [][batch.status \in {"pending_qc", "qc_approved", "completed"} =>
       Entered(po_links') = Entered(po_links)]_vars

\* C36: status and qc_status of the batch agree: qc_status is approved
\* exactly when status is qc_approved or completed, rejected exactly when
\* status is qc_rejected, and pending when status is draft or pending_qc.
C36_StatusAgreesWithQC ==
  Exists =>
    /\ batch.qc_status = "approved" <=> batch.status \in {"qc_approved", "completed"}
    /\ batch.qc_status = "rejected" <=> batch.status = "qc_rejected"
    /\ batch.status \in {"draft", "pending_qc"} => batch.qc_status = "pending"

\* C36 witness: a batch that was submitted, approved and posted to
\* completion.
C36_Witness ==
  /\ batch.status = "completed" /\ batch.qc_status = "approved"
  /\ batch.submitted_at /\ batch.qc_reviewed_at
  /\ last.op = "post"

\* The PO links with status posted.
PostedLinks(links) == {i \in 1..Len(links) : links[i].status = "posted"}

\* C37: a batch with a posted PO link is qc_approved or completed, never
\* draft or qc_rejected, and no request removes a posted PO link or its
\* document number: delete_batch and reset_batch_for_resubmission are not
\* accepted for it.
C37_PostedIsKept ==
  [][PostedLinks(po_links) # {} =>
       /\ batch.status \in {"qc_approved", "completed"}
       /\ batch'.status \in {"qc_approved", "completed"}
       /\ \A i \in PostedLinks(po_links) :
            /\ i \in PostedLinks(po_links')
            /\ po_links'[i].sap_grn_doc_num = po_links[i].sap_grn_doc_num]_vars

\* C37 witness: delete_batch or reset_batch_for_resubmission was refused for
\* a batch with a posted PO link.
C37_Witness ==
  /\ PostedLinks(po_links) # {}
  /\ req.op \in {"delete", "reset"}
  /\ last = Refused

\* C38: total_grns_created of the batch is the number of its PO links with
\* status posted, also after a post that an exception ended and after a
\* retry in which no link succeeded.
C38_CountsPostedLinks ==
  Exists => batch.total_grns_created = Cardinality(PostedLinks(po_links))

\* C39: a batch is completed only if a document was created for it: a batch
\* with no PO link, or whose PO links have no line selection, is not taken
\* through submit_for_qc, qc_approve_batch and post into completed with
\* total_grns_created = 0.
C39_CompletedHasDocument ==
  batch.status = "completed" =>
    /\ batch.total_grns_created > 0
    /\ \E i \in 1..Len(po_links) : sap_docs[po_links[i].po_doc_num] > 0

\* C40: a failed PO link belongs to a qc_approved batch, so that retry_posting is accepted while a PO link is failed; a
\* retry that the endpoint refuses for a link leaves that link failed with
\* the error of the retry and the batch qc_approved.
C40_FailedIsRetryable ==
  /\ \A i \in FailedLinks(po_links) :
       /\ batch.status = "qc_approved"
       /\ RetryAllowed(batch, po_links)
  /\ (last.op = "retry" /\ ~last.raised) =>
       \A i \in last.sent :
         po_links[i].po_doc_num \in last.failing =>
           /\ po_links[i].status = "failed"
           /\ po_links[i].error_message = "Retry failed: rejected"
           /\ batch.status = "qc_approved"

\* C40 witness: a retry that the endpoint refused for a link.
C40_Witness ==
  /\ last.op = "retry" /\ ~last.raised
  /\ \E i \in last.sent :
       /\ po_links[i].po_doc_num \in last.failing
       /\ po_links[i].status = "failed"

====
